---- MODULE Spec2Model ----
(***************************************************************************)
(* Leuphana knowledge graph: the scraper's entity registry                 *)
(* (src/scraper/scraper.py) and the graph builder                          *)
(* (src/scraper/rdf_generator.py).                                          *)
(*                                                                         *)
(* Strings are TLA+ strings; a character is a string of length 1.  The     *)
(* module text is ASCII: the character "~" stands for a non-ASCII letter   *)
(* (the u-umlaut of "LuneLab" in config.py), which Python's \w matches and *)
(* the class [a-z0-9] does not.                                            *)
(***************************************************************************)
EXTENDS Integers, Sequences, FiniteSets, TLC

VARIABLES
    call,            \* the last function or method called, with its arguments
    ret,             \* what that call returned
    graph,           \* RDFGenerator.graph: the triples, in insertion order
    phase,           \* load_from_json: the collection being processed
    doc,             \* load_from_json: the records of the document read so far
    persons,         \* LeuphanaScaper.persons      (dict, insertion order)
    organizations,   \* LeuphanaScaper.organizations
    chairs,          \* LeuphanaScaper.chairs
    hiwi_positions,  \* LeuphanaScaper.hiwi_positions
    programs,        \* LeuphanaScaper.programs
    minors,          \* LeuphanaScaper.minors
    research_projects, \* LeuphanaScaper.research_projects
    courses,         \* LeuphanaScaper.courses
    visited_urls,    \* LeuphanaScaper.visited_urls
    pc,              \* LeuphanaScaper.run: the index of the next task of the run
    pages,           \* the number of requests of the run answered with a page
    io               \* the requests get_soup issued and the time.sleep calls, in order

registry == <<persons, organizations, chairs, hiwi_positions, programs, minors,
              research_projects, courses, visited_urls, pc, pages, io>>
builder == <<graph, phase, doc>>
vars == <<call, ret, graph, phase, doc, persons, organizations, chairs,
          hiwi_positions, programs, minors, research_projects, courses,
          visited_urls, pc, pages, io>>

-----------------------------------------------------------------------------
(* Characters and strings                                                  *)

NonAscii == "~"
LowerAlpha == "abcdefghijklmnopqrstuvwxyz"
UpperAlpha == "ABCDEFGHIJKLMNOPQRSTUVWXYZ"
DigitChars == "0123456789"

Char(s, i) == SubSeq(s, i, i)
Chars(s) == {Char(s, i) : i \in 1..Len(s)}

LowerChars == Chars(LowerAlpha)
UpperChars == Chars(UpperAlpha)
Digits == Chars(DigitChars)

\* Python's [a-z0-9]
IsLowerAlnum(c) == c \in LowerChars \/ c \in Digits
\* Python's \w (str patterns are Unicode-aware: letters of any script, digits, "_")
IsWord(c) == \/ c \in LowerChars \/ c \in UpperChars \/ c \in Digits
             \/ c = "_"
             \/ c = NonAscii

ToLower == [c \in UpperChars |->
              Char(LowerAlpha, CHOOSE i \in 1..Len(UpperAlpha) : Char(UpperAlpha, i) = c)]
ToUpper == [c \in LowerChars |->
              Char(UpperAlpha, CHOOSE i \in 1..Len(LowerAlpha) : Char(LowerAlpha, i) = c)]
LowerChar(c) == IF c \in UpperChars THEN ToLower[c] ELSE c
UpperChar(c) == IF c \in LowerChars THEN ToUpper[c] ELSE c

\* the value x under the name the body F gives it
With(x, F(_)) == F(x)

RECURSIVE Concat(_, _, _)
\* the concatenation of the strings ss[lo], ..., ss[hi]
Concat(ss, lo, hi) ==
    IF lo > hi THEN ""
    ELSE IF lo = hi THEN ss[lo]
    ELSE LET mid == (lo + hi) \div 2
         IN  Concat(ss, lo, mid) \o Concat(ss, mid + 1, hi)

\* str.lower()
Lower(s) == Concat([i \in 1..Len(s) |-> LowerChar(Char(s, i))], 1, Len(s))
\* str.upper()
Upper(s) == Concat([i \in 1..Len(s) |-> UpperChar(Char(s, i))], 1, Len(s))

\* sub in s
Contains(s, sub) ==
    \E i \in 1..(Len(s) - Len(sub) + 1) : SubSeq(s, i, i + Len(sub) - 1) = sub
\* s.endswith(sub)
EndsWith(s, sub) ==
    Len(sub) <= Len(s) /\ SubSeq(s, Len(s) - Len(sub) + 1, Len(s)) = sub
\* s.startswith(sub)
StartsWith(s, sub) == Len(sub) <= Len(s) /\ SubSeq(s, 1, Len(sub)) = sub

\* str.lstrip(cs)
LStrip(s, cs) ==
    With({i \in 1..Len(s) : Char(s, i) \notin cs}, LAMBDA kept :
        IF kept = {} THEN ""
        ELSE SubSeq(s, CHOOSE i \in kept : \A j \in kept : i <= j, Len(s)))
\* str.rstrip(cs)
RStrip(s, cs) ==
    With({i \in 1..Len(s) : Char(s, i) \notin cs}, LAMBDA kept :
        IF kept = {} THEN ""
        ELSE SubSeq(s, 1, CHOOSE i \in kept : \A j \in kept : i >= j))
\* str.strip(cs); str.strip() with cs the whitespace
Strip(s, cs) == RStrip(LStrip(s, cs), cs)
Whitespace == {" ", "\t", "\n"}

\* re.sub(r'[^...]', '', s), the class given as the set of characters kept
KeepChars(s, keep) ==
    Concat([i \in 1..Len(s) |-> IF Char(s, i) \in keep THEN Char(s, i) ELSE ""],
           1, Len(s))

\* re.sub(r'[cs]+', rep, s): every maximal run of characters of cs becomes rep
CollapseRuns(s, cs, rep) ==
    Concat([i \in 1..Len(s) |->
               IF Char(s, i) \notin cs THEN Char(s, i)
               ELSE IF i = 1 \/ Char(s, i - 1) \notin cs THEN rep
               ELSE ""],
           1, Len(s))

-----------------------------------------------------------------------------
(* The two canonicalizers                                                  *)

INSTANCE_NS == "http://leuphana.de/resource/"
UNIVERSITY_URI == "http://leuphana.de/resource/university/leuphana"

\* The characters the model's strings are made of
Alphabet == LowerChars \cup UpperChars \cup Digits
            \cup {" ", "\t", "-", "_", ".", ",", "(", ")", "&", "/", ":", NonAscii}
WordChars == {c \in Alphabet : IsWord(c)}
\* create_uri, r'[^\w\s-]': the characters kept
CreateUriKept == WordChars \cup Whitespace \cup {"-"}
\* name_to_uri, r'[^a-z0-9\s-]': the characters kept
NameToUriKept == {c \in Alphabet : IsLowerAlnum(c)} \cup Whitespace \cup {"-"}

\* scraper.py create_uri: the slug
create_slug(name) ==
    LET kept == KeepChars(Lower(name), CreateUriKept)
        hyphened == CollapseRuns(Strip(kept, Whitespace), Whitespace, "-")
    IN  CollapseRuns(hyphened, {"-"}, "-")

\* a create_uri whose result depends on what the persons registry holds
create_uri_renumbering(entity_type, name) ==
    With(INSTANCE_NS \o entity_type \o "/" \o create_slug(name), LAMBDA uri :
        IF \E i \in 1..Len(persons) : persons[i].uri = uri THEN uri \o "-2" ELSE uri)

\* scraper.py create_uri
create_uri(entity_type, name) ==
    INSTANCE_NS \o entity_type \o "/" \o create_slug(name)

\* rdf_generator.py RDFGenerator.name_to_uri
name_to_uri(entity_type, name) ==
    LET kept == KeepChars(Lower(name), NameToUriKept)
        hyphened == CollapseRuns(kept, Whitespace, "-")
        slug == Strip(CollapseRuns(hyphened, {"-"}, "-"), {"-"})
    IN  INSTANCE_NS \o entity_type \o "/" \o slug

-----------------------------------------------------------------------------
(* The graph (rdflib.Graph with the in-memory store)                       *)
(*                                                                         *)
(* A triple is <<subject, predicate, object>>.  The graph is the sequence  *)
(* of its triples in insertion order without repetition: the store's       *)
(* indices are dicts, so graph.subjects(p, o) yields the subjects in the   *)
(* order their triples were first added.  A literal is its text, followed  *)
(* by "@" and the language tag or "^^" and the datatype when it has one.   *)

\* a fallback root spelled after the name of the university
University_misspelled == INSTANCE_NS \o "university/leuphana-university"
University == UNIVERSITY_URI

InGraph(g, t) == \E i \in 1..Len(g) : g[i] = t
\* Graph.add
Add(g, t) == IF InGraph(g, t) THEN g ELSE Append(g, t)
\* Graph.add for each triple of ts, in order: the triples of ts the graph
\* does not hold yet are appended, each once, in the order of their first
\* occurrence in ts
AddAll(g, ts) ==
    With({i \in 1..Len(ts) :
            ~InGraph(g, ts[i]) /\ \A j \in 1..(i - 1) : ts[j] # ts[i]}, LAMBDA fresh :
    LET nth(k) == CHOOSE i \in fresh : Cardinality({j \in fresh : j < i}) = k - 1
    IN  g \o [k \in 1..Cardinality(fresh) |-> ts[nth(k)]])

SeqMap1(ts, k) == [i \in 1..Len(ts) |-> ts[i][k]]
\* Graph.subjects(p, o), in iteration order
subjects(g, p, o) == SeqMap1(SelectSeq(g, LAMBDA t : t[2] = p /\ t[3] = o), 1)
\* (uri, RDF.type, None) in graph
IsTyped(g, uri) == \E i \in 1..Len(g) : g[i][1] = uri /\ g[i][2] = "rdf:type"
Triples(g) == {g[i] : i \in 1..Len(g)}

Lang(text, lang) == text \o "@" \o lang
Typed(text, datatype) == text \o "^^" \o datatype
\* the triples ts when the optional value v is truthy
Opt(v, ts) == IF v # "" THEN ts ELSE <<>>

\* rdf_generator.py add_organization: type_mapping.get(org_type, FOAF.Organization)
OrgTypeMapping ==
    [University |-> "leuph:University", School |-> "leuph:School",
     Institute |-> "leuph:Institute", ResearchCenter |-> "leuph:ResearchCenter",
     ResearchGroup |-> "leuph:ResearchGroup", Chair |-> "leuph:Chair",
     College |-> "leuph:College", GraduateSchool |-> "leuph:GraduateSchool",
     ProfessionalSchool |-> "leuph:ProfessionalSchool"]
OrgClass(org_type) ==
    IF org_type \in DOMAIN OrgTypeMapping THEN OrgTypeMapping[org_type]
    ELSE "foaf:Organization"

\* rdf_generator.py RDFGenerator.add_organization
add_organization(g, org_data) ==
    LET uri == org_data.uri
        parent_uri == org_data.parent
    IN  AddAll(g,
          <<<<uri, "rdf:type", OrgClass(org_data.org_type)>>,
            <<uri, "leuph:name", Lang(org_data.name, "en")>>,
            <<uri, "rdfs:label", Lang(org_data.name, "en")>> >>
          \o Opt(org_data.abbreviation,
                 << <<uri, "leuph:abbreviation", org_data.abbreviation>> >>)
          \o Opt(org_data.description,
                 <<<<uri, "leuph:description", Lang(org_data.description, "en")>>,
                   <<uri, "dc:description", Lang(org_data.description, "en")>> >>)
          \o Opt(parent_uri,
                 <<<<uri, "leuph:partOf", parent_uri>>,
                   <<parent_uri, "leuph:hasPart", uri>> >>
                 \o (IF org_data.org_type = "Institute"
                     THEN << <<uri, "leuph:belongsTo", parent_uri>> >> ELSE <<>>))
          \o Opt(org_data.webpage,
                 <<<<uri, "leuph:webpage", org_data.webpage>>,
                   <<uri, "foaf:homepage", org_data.webpage>> >>)
          \o Opt(org_data.address,
                 << <<uri, "leuph:address", org_data.address>> >>))

\* rdf_generator.py add_person: category_mapping.get(category, LEUPH.AcademicStaff)
PersonCategories ==
    {"Professor", "JuniorProfessor", "HonoraryProfessor", "EmeritusProfessor",
     "VisitingProfessor", "AdjunctProfessor", "ResearchAssistant", "PostDoc",
     "PhDStudent", "Lecturer", "VisitingScientist", "StudentAssistant",
     "AdministrativeStaff", "AcademicStaff"}
\* a CategoryClass that takes the category string for the class name
CategoryClass_unchecked(category) == "leuph:" \o category
CategoryClass(category) ==
    IF category \in PersonCategories THEN "leuph:" \o category
    ELSE "leuph:AcademicStaff"

\* the first element of the sequence s, or none when s is empty
FirstOf(s, none) == IF s = <<>> THEN none ELSE s[1]

\* rdf_generator.py add_person, lines 196-224: the organization an institute
\* soft reference is linked to, or "" when nothing matches
FindInstitute(g, institute) ==
    With(Upper(institute), LAMBDA institute_abbrev :
    LET in_uri(s) == Contains(Lower(s), Lower(institute_abbrev))
        by_abbrev(s) == \E a \in Triples(g) :
                            a[1] = s /\ a[2] = "leuph:abbreviation" /\ Upper(a[3]) = institute_abbrev IN
    With(FirstOf(SelectSeq(subjects(g, "rdf:type", "leuph:Institute"),
                    LAMBDA s : by_abbrev(s) \/ in_uri(s)), ""), LAMBDA inst :
    With(FirstOf(SelectSeq(subjects(g, "rdf:type", "leuph:ResearchCenter"), in_uri), ""), LAMBDA center :
    LET chair == FirstOf(SelectSeq(subjects(g, "rdf:type", "leuph:Chair"), in_uri), "")
    IN  IF inst # "" THEN inst ELSE IF center # "" THEN center ELSE chair)))

LiteralTriples(uri, p, values) == [i \in 1..Len(values) |-> <<uri, p, values[i]>>]

\* rdf_generator.py RDFGenerator.add_person
add_person(g, person_data) ==
    LET uri == person_data.uri
        email == person_data.email IN
    With(AddAll(g,
           <<<<uri, "rdf:type", CategoryClass(person_data.category)>>,
             <<uri, "rdf:type", "foaf:Person">>,
             <<uri, "leuph:name", person_data.name>>,
             <<uri, "rdfs:label", person_data.name>>,
             <<uri, "foaf:name", person_data.name>> >>
           \o Opt(person_data.first_name,
                  <<<<uri, "leuph:firstName", person_data.first_name>>,
                    <<uri, "foaf:firstName", person_data.first_name>> >>)
           \o Opt(person_data.last_name,
                  <<<<uri, "leuph:lastName", person_data.last_name>>,
                    <<uri, "foaf:lastName", person_data.last_name>> >>)
           \o Opt(person_data.title, << <<uri, "leuph:title", person_data.title>> >>)
           \o Opt(email, <<<<uri, "leuph:email", email>>,
                           <<uri, "foaf:mbox", "mailto:" \o email>> >>)
           \o Opt(person_data.phone, << <<uri, "leuph:phone", person_data.phone>> >>)
           \o Opt(person_data.office, << <<uri, "leuph:office", person_data.office>> >>)
           \o Opt(person_data.webpage,
                  <<<<uri, "leuph:webpage", person_data.webpage>>,
                    <<uri, "foaf:homepage", person_data.webpage>> >>)), LAMBDA g1 :
    With(IF person_data.institute # "" THEN FindInstitute(g1, person_data.institute)
         ELSE "", LAMBDA institute_uri :
    LET g2 == AddAll(g1, Opt(institute_uri,
                             <<<<uri, "leuph:memberOf", institute_uri>>,
                               <<institute_uri, "leuph:hasMember", uri>> >>)) IN
    With(name_to_uri("school", person_data.school), LAMBDA school_uri :
    With(AddAll(g2, Opt(person_data.school,
                        <<<<uri, "leuph:worksAt", school_uri>>,
                          <<school_uri, "leuph:hasEmployee", uri>> >>)), LAMBDA g3 :
    LET org_linked == institute_uri # "" \/ person_data.school # ""
        g4 == IF org_linked THEN g3
              ELSE AddAll(g3, <<<<uri, "leuph:affiliatedWith", University>>,
                                <<University, "leuph:hasAffiliate", uri>> >>)
    IN  AddAll(g4, LiteralTriples(uri, "leuph:hasResearchArea", person_data.research_areas))))))

RECURSIVE Split(_, _)
\* str.split(sep) for a one-character separator
Split(s, sep) ==
    With({i \in 1..Len(s) : Char(s, i) = sep}, LAMBDA cuts :
        IF cuts = {} THEN <<s>>
        ELSE LET i == CHOOSE c \in cuts : \A d \in cuts : c <= d
             IN  <<SubSeq(s, 1, i - 1)>> \o Split(SubSeq(s, i + 1, Len(s)), sep))

_resolve_org_uri_returning_reference(g, uri_string) ==
    [uri |-> IF uri_string = "" THEN University ELSE uri_string, graph |-> g]

_resolve_org_uri_registering_fallback(g, uri_string) ==
    [uri |-> IF IsTyped(g, uri_string) THEN uri_string ELSE University,
     graph |-> IF IsTyped(g, uri_string) THEN g
               ELSE Add(g, <<uri_string, "rdf:type", "foaf:Organization">>)]

\* rdf_generator.py RDFGenerator._resolve_org_uri: the uri returned and the
\* graph the call leaves
_resolve_org_uri(g, uri_string) ==
    With(Split(RStrip(uri_string, {"/"}), "/"), LAMBDA parts :
    With(Lower(parts[Len(parts)]), LAMBDA abbrev :
    With(IF Len(parts) >= 2 THEN parts[Len(parts) - 1] ELSE "", LAMBDA entity_type :
    LET type_to_class == [institute |-> "leuph:Institute", school |-> "leuph:School"] IN
    With(IF entity_type = "research-center" THEN "leuph:ResearchCenter"
         ELSE IF entity_type \in DOMAIN type_to_class
              THEN type_to_class[entity_type] ELSE "", LAMBDA rdf_class :
    LET matches(s) == \/ Contains(Lower(s), abbrev)
                      \/ EndsWith(Lower(s), abbrev)
                      \/ \E a \in Triples(g) :
                             a[1] = s /\ a[2] = "leuph:abbreviation" /\ Lower(a[3]) = abbrev IN
    With(IF rdf_class = "" THEN ""
         ELSE FirstOf(SelectSeq(subjects(g, "rdf:type", rdf_class), matches), ""), LAMBDA found :
        [uri |-> IF IsTyped(g, uri_string) THEN uri_string
                 ELSE IF found # "" THEN found
                 ELSE University,
         graph |-> g])))))

\* rdf_generator.py add_program: type_mapping.get(program_type, LEUPH.StudyProgram)
ProgramClass(program_type) ==
    IF program_type \in {"BachelorProgram", "MasterProgram", "DoctoralProgram",
                         "StudyProgram"}
    THEN "leuph:" \o program_type ELSE "leuph:StudyProgram"

\* rdf_generator.py RDFGenerator.add_program
add_program(g, program_data) ==
    LET uri == program_data.uri IN
    With(AddAll(g,
           <<<<uri, "rdf:type", ProgramClass(program_data.program_type)>>,
             <<uri, "leuph:name", Lang(program_data.name, "en")>>,
             <<uri, "rdfs:label", Lang(program_data.name, "en")>> >>
           \o Opt(program_data.description,
                  << <<uri, "leuph:description", Lang(program_data.description, "en")>> >>)
           \o Opt(program_data.duration,
                  << <<uri, "leuph:duration", program_data.duration>> >>)
           \o Opt(program_data.language,
                  << <<uri, "leuph:language", program_data.language>> >>)), LAMBDA g1 :
    With(_resolve_org_uri(g1, program_data.offered_by), LAMBDA resolved :
    LET offered_by_uri == IF program_data.offered_by # "" THEN resolved.uri ELSE University
        g2 == IF program_data.offered_by # "" THEN resolved.graph ELSE g1
    IN  AddAll(g2,
          <<<<uri, "leuph:offeredBy", offered_by_uri>>,
            <<offered_by_uri, "leuph:offers", uri>> >>
          \o Opt(program_data.webpage,
                 << <<uri, "leuph:webpage", program_data.webpage>> >>))))

RECURSIVE MemberTriples(_, _)
MemberTriples(uri, members) ==
    IF members = <<>> THEN <<>>
    ELSE <<<<Head(members), "leuph:memberOf", uri>>,
           <<uri, "leuph:hasMember", Head(members)>> >>
         \o MemberTriples(uri, Tail(members))

\* rdf_generator.py RDFGenerator.add_chair
add_chair(g, chair_data) ==
    LET uri == chair_data.uri
        parent_uri == IF chair_data.parent # "" THEN chair_data.parent ELSE University
        professor_uri == chair_data.headed_by
    IN  AddAll(g,
          <<<<uri, "rdf:type", "leuph:Chair">>,
            <<uri, "rdf:type", "foaf:Organization">>,
            <<uri, "leuph:name", Lang(chair_data.name, "en")>>,
            <<uri, "rdfs:label", Lang(chair_data.name, "en")>> >>
          \o Opt(chair_data.description,
                 << <<uri, "leuph:description", Lang(chair_data.description, "en")>> >>)
          \o <<<<uri, "leuph:partOf", parent_uri>>,
               <<parent_uri, "leuph:hasPart", uri>> >>
          \o Opt(professor_uri,
                 <<<<professor_uri, "leuph:heads", uri>>,
                   <<uri, "leuph:headedBy", professor_uri>> >>)
          \o MemberTriples(uri, chair_data.team_members)
          \o Opt(chair_data.webpage,
                 <<<<uri, "leuph:webpage", chair_data.webpage>>,
                   <<uri, "foaf:homepage", chair_data.webpage>> >>))

\* rdf_generator.py RDFGenerator.add_hiwi_position
add_hiwi_position(g, hiwi_data) ==
    LET uri == hiwi_data.uri
        dept_uri == name_to_uri("institute", hiwi_data.department)
    IN  AddAll(g,
          <<<<uri, "rdf:type", "leuph:HiwiPosition">>,
            <<uri, "leuph:name", Lang(hiwi_data.title, "en")>>,
            <<uri, "rdfs:label", Lang(hiwi_data.title, "en")>> >>
          \o Opt(hiwi_data.description,
                 << <<uri, "leuph:description", Lang(hiwi_data.description, "en")>> >>)
          \o Opt(hiwi_data.department, << <<uri, "leuph:postedBy", dept_uri>> >>)
          \o Opt(hiwi_data.contact_email,
                 << <<uri, "leuph:contactEmail", hiwi_data.contact_email>> >>)
          \o Opt(hiwi_data.posted_date,
                 << <<uri, "leuph:postedDate", Typed(hiwi_data.posted_date, "xsd:date")>> >>)
          \o Opt(hiwi_data.hours_per_week,
                 << <<uri, "leuph:hoursPerWeek", hiwi_data.hours_per_week>> >>)
          \o Opt(hiwi_data.webpage, << <<uri, "leuph:webpage", hiwi_data.webpage>> >>))

\* rdf_generator.py RDFGenerator.add_minor
add_minor(g, minor_data) ==
    LET uri == minor_data.uri
        offered_by_uri == minor_data.offered_by
    IN  AddAll(g,
          <<<<uri, "rdf:type", "leuph:Minor">>,
            <<uri, "leuph:name", Lang(minor_data.name, "en")>>,
            <<uri, "rdfs:label", Lang(minor_data.name, "en")>> >>
          \o Opt(minor_data.name_de,
                 <<<<uri, "leuph:name", Lang(minor_data.name_de, "de")>>,
                   <<uri, "rdfs:label", Lang(minor_data.name_de, "de")>> >>)
          \o Opt(minor_data.description,
                 << <<uri, "leuph:description", Lang(minor_data.description, "de")>> >>)
          \o Opt(minor_data.credit_points,
                 << <<uri, "leuph:credits", Typed(minor_data.credit_points, "xsd:integer")>> >>)
          \o Opt(offered_by_uri,
                 <<<<uri, "leuph:offeredBy", offered_by_uri>>,
                   <<offered_by_uri, "leuph:offers", uri>> >>)
          \o Opt(minor_data.webpage, << <<uri, "leuph:webpage", minor_data.webpage>> >>))

\* rdf_generator.py RDFGenerator.add_research_project
add_research_project(g, project_data) ==
    LET uri == project_data.uri IN
    With(AddAll(g,
           <<<<uri, "rdf:type", "leuph:ResearchProject">>,
             <<uri, "leuph:name", Lang(project_data.name, "en")>>,
             <<uri, "rdfs:label", Lang(project_data.name, "en")>> >>
           \o Opt(project_data.description,
                  << <<uri, "leuph:description", project_data.description>> >>)), LAMBDA g1 :
    With(_resolve_org_uri(g1, project_data.conducted_by), LAMBDA resolved :
    LET org_uri == IF project_data.conducted_by # "" THEN resolved.uri ELSE University
        g2 == IF project_data.conducted_by # "" THEN resolved.graph ELSE g1
        pi_uri == project_data.principal_investigator
    IN  AddAll(g2,
          <<<<uri, "leuph:conductedBy", org_uri>>,
            <<org_uri, "leuph:conducts", uri>> >>
          \o Opt(pi_uri, << <<pi_uri, "leuph:worksOn", uri>> >>)
          \o Opt(project_data.funding_source,
                 << <<uri, "leuph:fundingSource", project_data.funding_source>> >>)
          \o Opt(project_data.start_date,
                 << <<uri, "leuph:startDate", Typed(project_data.start_date, "xsd:date")>> >>)
          \o Opt(project_data.end_date,
                 << <<uri, "leuph:endDate", Typed(project_data.end_date, "xsd:date")>> >>)
          \o Opt(project_data.webpage, << <<uri, "leuph:webpage", project_data.webpage>> >>))))

RECURSIVE TeachTriples(_, _)
TeachTriples(uri, instructors) ==
    IF instructors = <<>> THEN <<>>
    ELSE <<<<Head(instructors), "leuph:teaches", uri>>,
           <<uri, "leuph:taughtBy", Head(instructors)>> >>
         \o TeachTriples(uri, Tail(instructors))

COLLEGE_URI == "http://leuphana.de/resource/school/college"

\* rdf_generator.py RDFGenerator.add_course
add_course(g, course_data) ==
    LET uri == course_data.uri
        program_uri == course_data.part_of_program
    IN  AddAll(g,
          <<<<uri, "rdf:type", "leuph:Course">>,
            <<uri, "rdf:type", "schema:Course">>,
            <<uri, "leuph:name", Lang(course_data.name, "en")>>,
            <<uri, "rdfs:label", Lang(course_data.name, "en")>> >>
          \o Opt(course_data.description,
                 << <<uri, "leuph:description", Lang(course_data.description, "en")>> >>)
          \o Opt(course_data.credit_points,
                 << <<uri, "leuph:credits", Typed(course_data.credit_points, "xsd:integer")>> >>)
          \o Opt(course_data.course_type,
                 << <<uri, "leuph:courseType", course_data.course_type>> >>)
          \o Opt(course_data.semester, << <<uri, "leuph:semester", course_data.semester>> >>)
          \o Opt(course_data.language, << <<uri, "leuph:language", course_data.language>> >>)
          \o (IF program_uri # ""
              THEN <<<<uri, "leuph:partOf", program_uri>>,
                     <<program_uri, "leuph:hasPart", uri>> >>
              ELSE <<<<uri, "leuph:offeredBy", COLLEGE_URI>>,
                     <<COLLEGE_URI, "leuph:offers", uri>> >>)
          \o TeachTriples(uri, course_data.taught_by)
          \o Opt(course_data.webpage, << <<uri, "leuph:webpage", course_data.webpage>> >>))

\* rdf_generator.py _create_core_academic_units: core_units
core_units ==
    <<[uri |-> "http://leuphana.de/resource/school/college", name |-> "College",
       description |-> "Leuphana College offers undergraduate (Bachelor) programs"],
      [uri |-> "http://leuphana.de/resource/school/graduate-school",
       name |-> "Graduate School",
       description |-> "Leuphana Graduate School offers Master's programs"],
      [uri |-> "http://leuphana.de/resource/school/professional-school",
       name |-> "Professional School",
       description |-> "Leuphana Professional School offers professional and continuing education programs"]>>

RECURSIVE CreateUnits(_, _)
CreateUnits(g, units) ==
    IF units = <<>> THEN g
    ELSE LET unit == Head(units)
             uri == unit.uri
             g1 == IF InGraph(g, <<uri, "rdf:type", "leuph:School">>) THEN g
                   ELSE AddAll(g,
                          <<<<uri, "rdf:type", "leuph:School">>,
                            <<uri, "leuph:name", Lang(unit.name, "en")>>,
                            <<uri, "rdfs:label", Lang(unit.name, "en")>>,
                            <<uri, "leuph:description", Lang(unit.description, "en")>>,
                            <<uri, "leuph:partOf", University>>,
                            <<University, "leuph:hasPart", uri>> >>)
         IN  CreateUnits(g1, Tail(units))

\* a _create_core_academic_units whose loop misses the first unit, the College
_create_core_academic_units_skipping_college(g) == CreateUnits(g, Tail(core_units))

\* rdf_generator.py RDFGenerator._create_core_academic_units
_create_core_academic_units(g) == CreateUnits(g, core_units)

(***************************************************************************)
(* The records of scraper.py, as the combined JSON document carries them   *)
(* (asdict of each dataclass).  An attribute that is None is "".           *)
(***************************************************************************)
Person(uri, name) ==
    [uri |-> uri, name |-> name, first_name |-> "", last_name |-> "", title |-> "",
     category |-> "", email |-> "", phone |-> "", office |-> "", webpage |-> "",
     institute |-> "", school |-> "", research_areas |-> <<>>, image_url |-> "",
     source_url |-> ""]

Organization(uri, name, org_type) ==
    [uri |-> uri, name |-> name, org_type |-> org_type, abbreviation |-> "",
     description |-> "", parent |-> "", webpage |-> "", address |-> "",
     members |-> <<>>, source_url |-> ""]

StudyProgram(uri, name, program_type) ==
    [uri |-> uri, name |-> name, program_type |-> program_type, description |-> "",
     duration |-> "", language |-> "", offered_by |-> "", webpage |-> "",
     source_url |-> ""]

Chair(uri, name) ==
    [uri |-> uri, name |-> name, description |-> "", parent |-> "", headed_by |-> "",
     webpage |-> "", team_members |-> <<>>, source_url |-> ""]

HiwiPosition(uri, title) ==
    [uri |-> uri, title |-> title, description |-> "", department |-> "",
     contact_person |-> "", contact_email |-> "", posted_date |-> "",
     hours_per_week |-> "", webpage |-> "", source_url |-> ""]

Course(uri, name) ==
    [uri |-> uri, name |-> name, description |-> "", credit_points |-> "",
     course_type |-> "", part_of_program |-> "", taught_by |-> <<>>, semester |-> "",
     language |-> "", webpage |-> "", source_url |-> ""]

Minor(uri, name) ==
    [uri |-> uri, name |-> name, name_de |-> "", description |-> "",
     credit_points |-> "", part_of_program |-> "", offered_by |-> "", webpage |-> "",
     source_url |-> ""]

ResearchProject(uri, name) ==
    [uri |-> uri, name |-> name, description |-> "", conducted_by |-> "",
     principal_investigator |-> "", funding_source |-> "", start_date |-> "",
     end_date |-> "", webpage |-> "", source_url |-> ""]

\* the collections of the combined document, in the order load_from_json reads them
Collections ==
    <<"organizations", "chairs", "hiwi_positions", "persons", "programs", "minors",
      "research_projects", "courses">>

EmptyDocument == [c \in {Collections[i] : i \in 1..Len(Collections)} |-> <<>>]

\* the add_* method load_from_json applies to a record of the collection
AddRecord(g, collection, record) ==
    CASE collection = "organizations" -> add_organization(g, record)
      [] collection = "chairs" -> add_chair(g, record)
      [] collection = "hiwi_positions" -> add_hiwi_position(g, record)
      [] collection = "persons" -> add_person(g, record)
      [] collection = "programs" -> add_program(g, record)
      [] collection = "minors" -> add_minor(g, record)
      [] collection = "research_projects" -> add_research_project(g, record)
      [] collection = "courses" -> add_course(g, record)

RECURSIVE AddRecords(_, _, _)
\* one "for uri, data in data.get(collection, {}).items()" loop of load_from_json
AddRecords(g, collection, records) ==
    IF records = <<>> THEN g
    ELSE AddRecords(AddRecord(g, collection, Head(records)), collection, Tail(records))

RECURSIVE AddCollections(_, _, _)
AddCollections(g, data, collections) ==
    IF collections = <<>> THEN g
    ELSE AddCollections(AddRecords(g, Head(collections), data[Head(collections)]),
                        data, Tail(collections))

\* rdf_generator.py RDFGenerator.load_from_json
load_from_json(g, data) ==
    LET g1 == AddRecords(g, "organizations", data.organizations)
        g2 == _create_core_academic_units(g1)
    IN  AddCollections(g2, data, Tail(Collections))

-----------------------------------------------------------------------------
(* scraper.py: helper functions                                            *)

RECURSIVE SplitWords(_)
\* str.split(): the maximal runs of non-whitespace characters
SplitWords(s) ==
    With(LStrip(s, Whitespace), LAMBDA t :
    With({i \in 1..Len(t) : Char(t, i) \in Whitespace}, LAMBDA gaps :
    With(IF gaps = {} THEN Len(t) + 1
         ELSE CHOOSE i \in gaps : \A j \in gaps : i <= j, LAMBDA cut :
        IF t = "" THEN <<>>
        ELSE <<SubSeq(t, 1, cut - 1)>> \o SplitWords(SubSeq(t, cut, Len(t))))))

RECURSIVE Join(_, _)
\* sep.join(words)
Join(words, sep) ==
    IF words = <<>> THEN ""
    ELSE IF Len(words) = 1 THEN words[1]
    ELSE words[1] \o sep \o Join(Tail(words), sep)

\* extract_name_parts: titles
titles ==
    {"Prof.", "Dr.", "Dr.-Ing.", "Jun.-Prof.", "Apl.", "rer.", "nat.", "phil.",
     "habil.", "PD", "M.A.", "M.Sc.", "MBA", "LL.M.", "Dipl.-"}

IsTitle(word) == \E t \in titles : StartsWith(word, t) \/ word = t

RECURSIVE TitleCount(_)
\* the number of leading words the while loop of extract_name_parts pops
TitleCount(name_parts) ==
    IF name_parts # <<>> /\ IsTitle(Head(name_parts))
    THEN 1 + TitleCount(Tail(name_parts)) ELSE 0

\* an extract_name_parts that leaves last_name None when only titles remain
extract_name_parts_nameless(full_name) ==
    With(SplitWords(full_name), LAMBDA words :
    With(TitleCount(words), LAMBDA n :
    LET title_parts == SubSeq(words, 1, n)
        name_parts == SubSeq(words, n + 1, Len(words))
    IN  [title |-> Join(title_parts, " "),
         first_name |-> IF Len(name_parts) >= 2
                        THEN Join(SubSeq(name_parts, 1, Len(name_parts) - 1), " ")
                        ELSE "",
         last_name |-> IF Len(name_parts) >= 1 THEN name_parts[Len(name_parts)]
                       ELSE "",
         absent |-> (IF title_parts = <<>> THEN {"title"} ELSE {})
                    \cup (IF Len(name_parts) >= 2 THEN {} ELSE {"first_name"})
                    \cup (IF Len(name_parts) >= 1 THEN {} ELSE {"last_name"})]))

\* scraper.py extract_name_parts: the tuple returned, a part that is None
\* given as "" and named in absent
extract_name_parts(full_name) ==
    With(SplitWords(full_name), LAMBDA words :
    With(TitleCount(words), LAMBDA n :
    LET title_parts == SubSeq(words, 1, n)
        name_parts == SubSeq(words, n + 1, Len(words))
    IN  [title |-> Join(title_parts, " "),
         first_name |-> IF Len(name_parts) >= 2
                        THEN Join(SubSeq(name_parts, 1, Len(name_parts) - 1), " ")
                        ELSE "",
         last_name |-> IF Len(name_parts) >= 1 THEN name_parts[Len(name_parts)]
                       ELSE full_name,
         absent |-> (IF title_parts = <<>> THEN {"title"} ELSE {})
                    \cup (IF Len(name_parts) >= 2 THEN {} ELSE {"first_name"})]))

\* determine_person_category with the generic professor rule tested before
\* the honorary one
determine_person_category_generic_first(text, url, title) ==
    LET combined == Lower(text \o " " \o url \o " " \o title)
        has(w) == Contains(combined, w)
    IN  IF has("juniorprof") \/ has("junior professor") \/ has("jun.-prof")
        THEN "JuniorProfessor"
        ELSE IF has("prof.") \/ has("professor") THEN "Professor"
        ELSE IF has("honorar") \/ has("honorary") THEN "HonoraryProfessor"
        ELSE IF has("emerit") THEN "EmeritusProfessor"
        ELSE IF has("gastprof") \/ has("visiting prof") THEN "VisitingProfessor"
        ELSE IF has("apl.") \/ has("adjunct")
                \/ has("au" \o NonAscii \o "erplanm" \o NonAscii \o NonAscii \o "ig")
        THEN "AdjunctProfessor"
        ELSE IF has("post-doc") \/ has("postdoc") THEN "PostDoc"
        ELSE IF has("phd") \/ has("doktorand") \/ has("doctoral") THEN "PhDStudent"
        ELSE IF has("lecturer") \/ has("lektor") \/ has("lehrbeauft") THEN "Lecturer"
        ELSE IF has("research assistant") \/ has("wissenschaftl")
        THEN "ResearchAssistant"
        ELSE IF has("visiting scientist") \/ has("gastwissenschaft")
        THEN "VisitingScientist"
        ELSE IF has("hiwi") \/ has("student assistant") \/ has("hilfskraft")
        THEN "StudentAssistant"
        ELSE IF has("dr.") /\ ~has("prof") THEN "PostDoc"
        ELSE "AcademicStaff"

\* determine_person_category taking every doctoral title for a PostDoc
determine_person_category_any_doctor(text, url, title) ==
    LET combined == Lower(text \o " " \o url \o " " \o title)
        has(w) == Contains(combined, w)
    IN  IF has("juniorprof") \/ has("junior professor") \/ has("jun.-prof")
        THEN "JuniorProfessor"
        ELSE IF has("honorar") \/ has("honorary") THEN "HonoraryProfessor"
        ELSE IF has("emerit") THEN "EmeritusProfessor"
        ELSE IF has("gastprof") \/ has("visiting prof") THEN "VisitingProfessor"
        ELSE IF has("apl.") \/ has("adjunct")
                \/ has("au" \o NonAscii \o "erplanm" \o NonAscii \o NonAscii \o "ig")
        THEN "AdjunctProfessor"
        ELSE IF has("prof.") \/ has("professor") THEN "Professor"
        ELSE IF has("post-doc") \/ has("postdoc") THEN "PostDoc"
        ELSE IF has("phd") \/ has("doktorand") \/ has("doctoral") THEN "PhDStudent"
        ELSE IF has("lecturer") \/ has("lektor") \/ has("lehrbeauft") THEN "Lecturer"
        ELSE IF has("research assistant") \/ has("wissenschaftl")
        THEN "ResearchAssistant"
        ELSE IF has("visiting scientist") \/ has("gastwissenschaft")
        THEN "VisitingScientist"
        ELSE IF has("hiwi") \/ has("student assistant") \/ has("hilfskraft")
        THEN "StudentAssistant"
        ELSE IF has("dr.") THEN "PostDoc"
        ELSE "AcademicStaff"

\* scraper.py determine_person_category
determine_person_category(text, url, title) ==
    LET combined == Lower(text \o " " \o url \o " " \o title)
        has(w) == Contains(combined, w)
    IN  IF has("juniorprof") \/ has("junior professor") \/ has("jun.-prof")
        THEN "JuniorProfessor"
        ELSE IF has("honorar") \/ has("honorary") THEN "HonoraryProfessor"
        ELSE IF has("emerit") THEN "EmeritusProfessor"
        ELSE IF has("gastprof") \/ has("visiting prof") THEN "VisitingProfessor"
        ELSE IF has("apl.") \/ has("adjunct")
                \/ has("au" \o NonAscii \o "erplanm" \o NonAscii \o NonAscii \o "ig")
        THEN "AdjunctProfessor"
        ELSE IF has("prof.") \/ has("professor") THEN "Professor"
        ELSE IF has("post-doc") \/ has("postdoc") THEN "PostDoc"
        ELSE IF has("phd") \/ has("doktorand") \/ has("doctoral") THEN "PhDStudent"
        ELSE IF has("lecturer") \/ has("lektor") \/ has("lehrbeauft") THEN "Lecturer"
        ELSE IF has("research assistant") \/ has("wissenschaftl")
        THEN "ResearchAssistant"
        ELSE IF has("visiting scientist") \/ has("gastwissenschaft")
        THEN "VisitingScientist"
        ELSE IF has("hiwi") \/ has("student assistant") \/ has("hilfskraft")
        THEN "StudentAssistant"
        ELSE IF has("dr.") /\ ~has("prof") THEN "PostDoc"
        ELSE "AcademicStaff"

BASE_URL == "https://www.leuphana.de"
BASE_URL_EN == "https://www.leuphana.de/en"

\* config.py DISALLOWED_PATHS
DISALLOWED_PATHS ==
    {"/seite/", "/page/", "/intranet/", "/interner-bereich/", "/testsite/",
     "/test-und-demoseiten/", "/fileadmin/user_upload/INTRANET/"}

\* urlparse(url).path of an absolute http url without fragment
UrlPath(url) ==
    With(Split(Split(url, "?")[1], "/"), LAMBDA segments :
        IF Len(segments) <= 3 THEN ""
        ELSE "/" \o Join(SubSeq(segments, 4, Len(segments)), "/"))

\* is_allowed_url, were it to compare the path as written
is_allowed_url_case_sensitive(url) ==
    With(UrlPath(url), LAMBDA path :
        \A disallowed \in DISALLOWED_PATHS : ~Contains(path, disallowed))
\* scraper.py is_allowed_url
is_allowed_url(url) ==
    With(Lower(UrlPath(url)), LAMBDA path :
        \A disallowed \in DISALLOWED_PATHS : ~Contains(path, Lower(disallowed)))

\* re.search(r'\(([A-Z]+)\)', name): group 1, or "" when there is no match
AbbreviationOf(name) ==
    LET closes(i, j) == /\ Char(name, i) = "(" /\ Char(name, j) = ")" /\ j > i + 1
                        /\ \A k \in (i + 1)..(j - 1) : Char(name, k) \in UpperChars IN
    With({i \in 1..Len(name) : \E j \in 1..Len(name) : closes(i, j)}, LAMBDA starts :
    LET i0 == CHOOSE i \in starts : \A k \in starts : i <= k
        j0 == CHOOSE j \in 1..Len(name) : closes(i0, j)
    IN  IF starts = {} THEN "" ELSE SubSeq(name, i0 + 1, j0 - 1))

\* re.search('/' + word + '/([^/]+)/', text) for a word of words: group 1, or ""
SegmentAfter(text, words) ==
    With(Split(text, "/"), LAMBDA segments :
    With({k \in 2..(Len(segments) - 2) :
             segments[k] \in words /\ segments[k + 1] # ""}, LAMBDA hits :
        IF hits = {} THEN ""
        ELSE segments[(CHOOSE k \in hits : \A h \in hits : k <= h) + 1]))

IsDigits(s, n) == Len(s) = n /\ \A i \in 1..Len(s) : Char(s, i) \in Digits

\* re.search(r'/(\d{4})/(\d{2})/(\d{2})/', url): "YYYY-MM-DD", or ""
DateInUrl(url) ==
    With(Split(url, "/"), LAMBDA segments :
    With({k \in 2..(Len(segments) - 3) :
             /\ IsDigits(segments[k], 4) /\ IsDigits(segments[k + 1], 2)
             /\ IsDigits(segments[k + 2], 2)}, LAMBDA hits :
    LET k0 == CHOOSE k \in hits : \A h \in hits : k <= h
    IN  IF hits = {} THEN ""
        ELSE segments[k0] \o "-" \o segments[k0 + 1] \o "-" \o segments[k0 + 2]))

-----------------------------------------------------------------------------
(* scraper.py: LeuphanaScaper.  A registry collection is a dict keyed by    *)
(* uri: the sequence of its records in insertion order.  R is the scraper's *)
(* state (its eight collections and visited_urls); each method is the       *)
(* state it leaves.  A page is what get_soup returns for a url: NoPage when *)
(* the request fails, else the values the method's selectors read from it.  *)

HasKey(d, uri) == \E i \in 1..Len(d) : d[i].uri = uri
\* d = {record.uri: record}
Put_dropping_the_rest(d, record) == <<record>>
\* d[record.uri] = record
Put(d, record) ==
    IF HasKey(d, record.uri)
    THEN [i \in 1..Len(d) |-> IF d[i].uri = record.uri THEN record ELSE d[i]]
    ELSE Append(d, record)

NoPage == [ok |-> FALSE]

\* scraper.py LeuphanaScaper.get_soup: None for a disallowed url and for a
\* request that fails, else the page
get_soup(url, page) == IF is_allowed_url(url) THEN page ELSE NoPage

\* get_soup, lines 346-357: the request requests.get issues for an allowed url,
\* answered with a page or not
Requested(R, url, page) ==
    IF is_allowed_url(url)
    THEN [R EXCEPT !.io = Append(@, [op |-> "get", url |-> url, ok |-> page.ok])]
    ELSE R

\* get_soup, lines 352-364: what the try block makes of the answer to the
\* request.  requests.get raises Timeout or ConnectionError, raise_for_status
\* raises HTTPError for a 4xx or 5xx status; the handler "except Exception"
\* takes each of them and get_soup returns None
ExceptionOf(response) ==
    IF response.kind = "timeout" THEN "Timeout"
    ELSE IF response.kind = "connection_error" THEN "ConnectionError"
    ELSE IF response.status >= 400 THEN "HTTPError"
    ELSE ""
\* the exceptions the handler "except Exception" takes
HandledExceptions == {"Timeout", "ConnectionError", "HTTPError"}
PageOf(response) == IF ExceptionOf(response) # "" THEN NoPage ELSE response.page

\* get_soup(url) when the request is answered with response: the value
\* returned, the requests issued and the exception that leaves get_soup
get_soup_call(url, response) ==
    IF ~is_allowed_url(url) THEN [soup |-> NoPage, io |-> <<>>, raised |-> ""]
    ELSE [soup |-> get_soup(url, PageOf(response)),
          io |-> Requested([io |-> <<>>], url, PageOf(response)).io,
          raised |-> IF ExceptionOf(response) \in HandledExceptions THEN ""
                     ELSE ExceptionOf(response)]

\* time.sleep
Slept(R) == [R EXCEPT !.io = Append(@, [op |-> "sleep"])]

\* scraper.py LeuphanaScaper.create_university_entity: the record
UniversityEntity ==
    [Organization(UNIVERSITY_URI, "Leuphana University of L" \o NonAscii \o "neburg",
                  "University")
     EXCEPT !.abbreviation = "Leuphana",
            !.description = "Leuphana University of L" \o NonAscii
                            \o "neburg is a public university in L" \o NonAscii
                            \o "neburg, Lower Saxony, Germany.",
            !.webpage = BASE_URL_EN,
            !.address = "Universit" \o NonAscii \o "tsallee 1, 21335 L" \o NonAscii
                        \o "neburg, Germany",
            !.source_url = BASE_URL_EN]

\* scraper.py LeuphanaScaper.create_university_entity
create_university_entity(R) ==
    [R EXCEPT !.organizations = Put(@, UniversityEntity)]

\* scraper.py LeuphanaScaper.scrape_school
scrape_school(R, name, url, page) ==
    LET full_url == BASE_URL \o url
        school == [Organization(create_uri("school", name), name, "School")
                   EXCEPT !.description = IF get_soup(full_url, page).ok
                                           THEN page.description ELSE "",
                          !.parent = UNIVERSITY_URI,
                          !.webpage = full_url,
                          !.source_url = full_url]
    IN  [Requested(R, full_url, page) EXCEPT !.organizations = Put(@, school)]

\* fetch_person_details: the empty dict
NoDetails ==
    [page_text |-> "", title |-> "", email |-> "", phone |-> "", office |-> "",
     research_areas |-> <<>>]

\* scraper.py LeuphanaScaper.fetch_person_details: the details returned and the
\* state left; web gives the page of each profile url
fetch_person_details(R, url, web) ==
    LET page == web[url]
        profile == /\ url # "" /\ url \notin R.visited_urls
                   /\ (Contains(url, "/person/") \/ Contains(url, "/team/"))
        fetched == profile /\ get_soup(url, page).ok
        R1 == Requested(R, url, page)
    IN  IF ~profile THEN [details |-> NoDetails, registry |-> R]
        ELSE IF ~fetched THEN [details |-> NoDetails, registry |-> R1]
        ELSE [details |->
                 [page_text |-> page.page_text,
                  title |-> extract_name_parts(page.name).title,
                  email |-> page.email, phone |-> page.phone, office |-> page.office,
                  research_areas |-> page.research_areas],
              registry |-> Slept([R1 EXCEPT !.visited_urls = @ \cup {url}])]

RECURSIVE MemberNames(_)
MemberNames(team_members) ==
    IF team_members = <<>> THEN <<>>
    ELSE <<Head(team_members).name>> \o MemberNames(Tail(team_members))

RECURSIVE CreateTeamPersons(_, _, _, _, _, _)
\* scrape_institute, lines 542-577: a Person for each team member whose name
\* no registered Person has
CreateTeamPersons(R, team_members, name, school_name, webpage, web) ==
    IF team_members = <<>> THEN R
    ELSE LET member_name == Head(team_members).name
             member_url == Head(team_members).url
             known == \E i \in 1..Len(R.persons) : R.persons[i].name = member_name IN
         With(extract_name_parts(member_name), LAMBDA parts :
         With(fetch_person_details(R, member_url, web), LAMBDA fetched :
         LET person_details == fetched.details
             title == IF person_details.title # "" THEN person_details.title
                      ELSE parts.title
             person == [Person(create_uri("person", member_name), member_name)
                        EXCEPT !.first_name = parts.first_name,
                               !.last_name = parts.last_name,
                               !.title = title,
                               !.category = determine_person_category(
                                                member_name \o " " \o person_details.page_text,
                                                member_url, title),
                               !.email = person_details.email,
                               !.phone = person_details.phone,
                               !.office = person_details.office,
                               !.institute = name,
                               !.school = school_name,
                               !.webpage = member_url,
                               !.research_areas = person_details.research_areas,
                               !.source_url = webpage]
             R1 == IF member_name # "" /\ ~known
                   THEN [fetched.registry EXCEPT !.persons = Put(@, person)]
                   ELSE R
         IN  CreateTeamPersons(R1, Tail(team_members), name, school_name, webpage, web)))

\* scraper.py LeuphanaScaper.scrape_institute; the page gives the description
\* and the (name, url) pairs of the links to team pages
scrape_institute(R, name, school_name, institute_url, page, web) ==
    With(AbbreviationOf(name), LAMBDA abbreviation :
    With(institute_url # "" /\ get_soup(BASE_URL \o institute_url, page).ok, LAMBDA read :
    With(IF read
         THEN SelectSeq(page.team_links,
                        LAMBDA l : /\ Contains(l.url, "/team/") \/ Contains(l.url, "/members/")
                                   /\ Contains(l.url, "team")
                                   /\ Len(l.name) > 2)
         ELSE <<>>, LAMBDA team_members :
    With(IF institute_url # "" THEN BASE_URL \o institute_url
         ELSE BASE_URL_EN \o "/institutes/"
              \o (IF abbreviation # "" THEN Lower(abbreviation) ELSE "unknown")
              \o ".html", LAMBDA webpage :
    LET institute == [Organization(create_uri("institute", name), name, "Institute")
                      EXCEPT !.abbreviation = abbreviation,
                             !.description = IF read THEN page.description ELSE "",
                             !.parent = create_uri("school", school_name),
                             !.webpage = webpage,
                             !.members = MemberNames(SubSeq(team_members, 1,
                                             IF Len(team_members) < 20 THEN Len(team_members) ELSE 20)),
                             !.source_url = webpage]
        R0 == IF institute_url # "" THEN Requested(R, BASE_URL \o institute_url, page)
              ELSE R
        R1 == [R0 EXCEPT !.organizations = Put(@, institute)]
    IN  CreateTeamPersons(R1,
            SubSeq(team_members, 1,
                   IF Len(team_members) < 15 THEN Len(team_members) ELSE 15),
            name, school_name, webpage, web)))))

RECURSIVE ListPersons(_, _, _, _)
\* scrape_person_list_page, lines 596-636: the loop over the person links
ListPersons(R, links, full_url, category) ==
    IF links = <<>> THEN R
    ELSE LET link == Head(links)
             person_url == link.href
             name == link.name IN
         With(extract_name_parts(name), LAMBDA parts :
         LET person_category == IF category # "" THEN category
                                ELSE determine_person_category(name, person_url, parts.title)
             person == [Person(create_uri("person", name), name)
                        EXCEPT !.first_name = parts.first_name,
                               !.last_name = parts.last_name,
                               !.title = parts.title,
                               !.category = person_category,
                               !.webpage = person_url,
                               !.source_url = full_url,
                               !.email = link.email]
             skipped == \/ link.href = ""
                        \/ person_url \in R.visited_urls
                        \/ ~is_allowed_url(person_url)
                        \/ Len(name) < 3
             R1 == IF skipped THEN R
                   ELSE Slept([R EXCEPT !.persons = Put(@, person),
                                        !.visited_urls = @ \cup {person_url}])
         IN  ListPersons(R1, Tail(links), full_url, category))

\* scraper.py LeuphanaScaper.scrape_person_list_page; the page gives its person
\* links (href made absolute, link text, the mailto address next to the link)
scrape_person_list_page(R, url, category, page) ==
    IF ~get_soup(url, page).ok THEN Requested(R, url, page)
    ELSE ListPersons(Requested(R, url, page), page.links, url, category)

\* scrape_all_persons_from_sitemap: non_person_patterns
non_person_patterns ==
    {"reden und vortr" \o NonAscii \o "ge", "speeches", "vortr" \o NonAscii \o "ge",
     "lectures", "publikationen", "publications", "projekte", "projects",
     "forschung", "research", "lehre", "teaching", "vita", "cv", "kontakt",
     "contact", "team", "mitarbeiter", "staff", "impressum", "imprint",
     "datenschutz", "privacy"}

\* scrape_all_persons_from_sitemap, lines 1497-1617: one url of the sitemap
scrape_person_from_sitemap(R, url, page) ==
    With(IF Len(page.h1) >= 2 THEN page.h1 ELSE page.title, LAMBDA name :
    LET name_words == SelectSeq(SplitWords(name),
                                LAMBDA w : Char(w, 1) \in UpperChars /\ Len(w) > 1) IN
    With(extract_name_parts(name), LAMBDA parts :
    With(SegmentAfter(url, {"institute", "institutes"}), LAMBDA from_url :
    With(SegmentAfter(url, {"zentren"}), LAMBDA from_center :
    LET institute == IF from_url # "" THEN Upper(from_url)
                     ELSE IF from_center # "" THEN Upper(from_center)
                     ELSE page.institute
        person == [Person(create_uri("person", name), name)
                   EXCEPT !.first_name = parts.first_name,
                          !.last_name = parts.last_name,
                          !.title = parts.title,
                          !.category = determine_person_category(page.page_text, url, parts.title),
                          !.email = page.email,
                          !.phone = page.phone,
                          !.office = page.office,
                          !.webpage = url,
                          !.institute = institute,
                          !.source_url = url]
        R1 == [Requested(R, url, page) EXCEPT !.visited_urls = @ \cup {url}]
    IN  IF url \in R.visited_urls THEN R
        ELSE IF ~get_soup(url, page).ok THEN Requested(R, url, page)
        ELSE IF Len(name) < 2 THEN R1
        ELSE IF \E pattern \in non_person_patterns : Contains(Lower(name), pattern)
        THEN R1
        ELSE IF Len(name_words) < 2 /\ ~Contains(name, "Prof.") /\ ~Contains(name, "Dr.")
        THEN R1
        ELSE Slept([R1 EXCEPT !.persons = Put(@, person)])))))

\* the first record of the collection d that satisfies P, or NoRecord
NoRecord == [uri |-> ""]

\* scraper.py LeuphanaScaper._scrape_chair_page; the page gives its h1, its
\* title, its meta description and the chair holder the holder_patterns find
_scrape_chair_page(R, url, page) ==
    LET R1 == [Requested(R, url, page) EXCEPT !.visited_urls = @ \cup {url}]
        chair_name == IF page.h1 # "" THEN page.h1 ELSE page.title IN
    With(create_uri("chair", chair_name), LAMBDA chair_uri :
    With(Upper(SegmentAfter(UrlPath(url), {"institute"})), LAMBDA institute_abbrev :
    LET parent == IF institute_abbrev = "" THEN NoRecord
                  ELSE FirstOf(SelectSeq(R1.organizations,
                         LAMBDA inst :
                           /\ inst.org_type = "Institute"
                           /\ IF inst.abbreviation # ""
                              THEN \/ Contains(Upper(inst.name), institute_abbrev)
                                   \/ Contains(Upper(inst.abbreviation), institute_abbrev)
                              ELSE FALSE), NoRecord)
        holder_name == page.holder_name IN
    With(IF Len(holder_name) > 5
         THEN FirstOf(SelectSeq(R1.persons,
                LAMBDA person : \/ Contains(person.name, holder_name)
                                \/ Contains(holder_name, person.name)), NoRecord)
         ELSE NoRecord, LAMBDA existing :
    With(/\ Len(holder_name) > 5 /\ existing.uri = ""
         /\ Contains(holder_name, "Prof."), LAMBDA created :
    With(extract_name_parts(holder_name), LAMBDA parts :
    With([Person(create_uri("person", holder_name), holder_name)
          EXCEPT !.first_name = parts.first_name,
                 !.last_name = parts.last_name,
                 !.title = parts.title,
                 !.category = "Professor",
                 !.webpage = url,
                 !.source_url = url], LAMBDA professor :
    LET headed_by_uri == IF created THEN professor.uri ELSE existing.uri
        chair == [Chair(chair_uri, chair_name)
                  EXCEPT !.description = page.description,
                         !.parent = parent.uri,
                         !.headed_by = headed_by_uri,
                         !.webpage = url,
                         !.source_url = url]
        R2 == IF created THEN [R1 EXCEPT !.persons = Put(@, professor)] ELSE R1
    IN  IF ~get_soup(url, page).ok THEN Requested(R, url, page)
        ELSE IF Len(chair_name) < 5 THEN R1
        ELSE IF HasKey(R1.chairs, chair_uri) THEN R1
        ELSE [R2 EXCEPT !.chairs = Put(@, chair)]))))))

\* scrape_chairs_from_sitemap, lines 1029-1033: one chair url of the sitemap
scrape_chair_from_sitemap(R, url, page) ==
    IF url \in R.visited_urls THEN R ELSE Slept(_scrape_chair_page(R, url, page))

\* scraper.py LeuphanaScaper._scrape_single_hiwi_position
_scrape_single_hiwi_position(R, link_title, url, page) ==
    LET R1 == [Requested(R, url, page) EXCEPT !.visited_urls = @ \cup {url}]
        title == IF page.h1 # "" THEN page.h1 ELSE link_title IN
    With(create_uri("hiwi-position", title), LAMBDA position_uri :
    With(Lower(page.page_text), LAMBDA page_text :
    With(FirstOf(SelectSeq(R1.organizations,
           LAMBDA inst :
             /\ inst.org_type = "Institute"
             /\ \/ Contains(page_text, Lower(inst.name))
                \/ inst.abbreviation # "" /\ Contains(page_text, Lower(inst.abbreviation))), NoRecord), LAMBDA department :
    LET position == [HiwiPosition(position_uri, title)
                     EXCEPT !.description = page.description,
                            !.department = IF department.uri = "" THEN "" ELSE department.name,
                            !.contact_email = page.contact_email,
                            !.posted_date = DateInUrl(url),
                            !.hours_per_week = page.hours_per_week,
                            !.webpage = url,
                            !.source_url = url]
    IN  IF ~get_soup(url, page).ok THEN Requested(R, url, page)
        ELSE IF Len(title) < 5 THEN R1
        ELSE IF HasKey(R1.hiwi_positions, position_uri) THEN R1
        ELSE [R1 EXCEPT !.hiwi_positions = Put(@, position)])))

\* config.py SEED_URLS["hiwi_positions"]
HIWI_POSITIONS_URL ==
    "https://www.leuphana.de/universitaet/jobs-und-karriere/hilfskraefte.html"

RECURSIVE ScrapePositions(_, _, _)
ScrapePositions(R, position_links, web) ==
    IF position_links = <<>> THEN R
    ELSE ScrapePositions(
             Slept(_scrape_single_hiwi_position(R, Head(position_links).text,
                                                Head(position_links).href,
                                                web[Head(position_links).href])),
             Tail(position_links), web)

\* scraper.py LeuphanaScaper.scrape_hiwi_positions; the page gives its links
\* (href made absolute, link text), web the page of each position url
scrape_hiwi_positions(R, page, web) ==
    LET R1 == [Requested(R, HIWI_POSITIONS_URL, page)
               EXCEPT !.visited_urls = @ \cup {HIWI_POSITIONS_URL}]
        position_links == SelectSeq(page.links,
                            LAMBDA l :
                              /\ \/ Contains(l.href, "/hilfskraefte/hilfskraefte-ansicht/")
                                 \/ Contains(l.href, "/assistants/assistants-singleview/")
                                 \/ /\ Contains(l.href, "/hilfskraefte/")
                                    /\ EndsWith(l.href, ".html")
                                    /\ ~Contains(l.href, "hilfskraefte.html")
                              /\ l.href \notin R1.visited_urls
                              /\ l.text # "")
    IN  IF ~get_soup(HIWI_POSITIONS_URL, page).ok
        THEN Requested(R, HIWI_POSITIONS_URL, page)
        ELSE ScrapePositions(R1, position_links, web)

\* scrape_study_programs, lines 1289-1293: program_type_mapping
program_type_mapping ==
    [bachelor |-> [prog_type |-> "BachelorProgram", offered_by |-> "College"],
     master |-> [prog_type |-> "MasterProgram", offered_by |-> "Graduate School"],
     professional |-> [prog_type |-> "MasterProgram", offered_by |-> "Professional School"]]

\* scrape_study_programs, lines 1306-1332: the (text, url) pairs of the page's
\* links that look like program links, then those of its program sections
ProgramLinks(R, page) ==
    LET pattern1 == SelectSeq(page.links,
                      LAMBDA l :
                        /\ Len(l.text) >= 5 /\ Len(l.text) <= 100
                        /\ \A skip \in {"more", "read", "contact", "apply", "login", "menu"} :
                               ~Contains(Lower(l.text), skip)
                        /\ \/ Contains(l.href, "/college/")
                           \/ Contains(l.href, "/graduate-school/")
                           \/ Contains(l.href, "/professional-school/")
                        /\ \/ Contains(l.href, "programme") \/ Contains(l.href, "program")
                           \/ Contains(l.href, "studies") \/ Contains(l.href, "major")
                        /\ l.href \notin R.visited_urls)
        pattern2 == SelectSeq(page.section_links,
                      LAMBDA l :
                        /\ Len(l.text) > 5 /\ l.href # ""
                        /\ l.href \notin R.visited_urls
                        /\ \A i \in 1..Len(pattern1) : pattern1[i] # l)
    IN  pattern1 \o pattern2

RECURSIVE CreatePrograms(_, _, _, _, _)
\* scrape_study_programs, lines 1337-1390: a StudyProgram for each program link
\* whose text no registered program has as its name
CreatePrograms(R, program_links, prog_key, url, web) ==
    IF program_links = <<>> THEN R
    ELSE LET prog_name == Head(program_links).text
             prog_url == Head(program_links).href
             prog_soup == get_soup(prog_url, web[prog_url])
             known == \E i \in 1..Len(R.programs) : R.programs[i].name = prog_name
             R1 == IF prog_soup.ok
                   THEN [Requested(R, prog_url, web[prog_url])
                         EXCEPT !.visited_urls = @ \cup {prog_url}]
                   ELSE Requested(R, prog_url, web[prog_url])
             program == [StudyProgram(create_uri("program", prog_name), prog_name,
                                      program_type_mapping[prog_key].prog_type)
                         EXCEPT !.description = IF prog_soup.ok THEN prog_soup.description ELSE "",
                                !.duration = IF prog_soup.ok THEN prog_soup.duration ELSE "",
                                !.language = IF prog_soup.ok THEN prog_soup.language ELSE "",
                                !.offered_by = create_uri("school",
                                                   program_type_mapping[prog_key].offered_by),
                                !.webpage = prog_url,
                                !.source_url = url]
         IN  CreatePrograms(IF known THEN R
                            ELSE Slept([R1 EXCEPT !.programs = Put(@, program)]),
                            Tail(program_links), prog_key, url, web)

\* scrape_study_programs, were it to register only the programs whose detail
\* page it has read
scrape_study_programs_requiring_page(R, prog_key, url, page, web) ==
    IF ~get_soup(url, page).ok THEN Requested(R, url, page)
    ELSE With(ProgramLinks(R, page), LAMBDA program_links :
         With(Slept(CreatePrograms(Requested(R, url, page),
                                   SubSeq(program_links, 1,
                                          IF Len(program_links) < 30 THEN Len(program_links)
                                          ELSE 30),
                                   prog_key, url, web)), LAMBDA R2 :
             [R2 EXCEPT !.programs =
                 SelectSeq(@, LAMBDA program : \/ program.webpage \in R2.visited_urls
                                               \/ HasKey(R.programs, program.uri))]))
\* scraper.py LeuphanaScaper.scrape_study_programs, lines 1295-1392: one entry
\* of SEED_URLS["programs"]; the page gives its links and the links of its
\* program sections (href made absolute, link text), web the program pages
scrape_study_programs(R, prog_key, url, page, web) ==
    IF ~get_soup(url, page).ok THEN Requested(R, url, page)
    ELSE With(ProgramLinks(R, page), LAMBDA program_links :
             Slept(CreatePrograms(Requested(R, url, page),
                                  SubSeq(program_links, 1,
                                         IF Len(program_links) < 30 THEN Len(program_links)
                                         ELSE 30),
                                  prog_key, url, web)))

\* re.findall(r'\b\w{4,}\b', text): the word runs of four characters or more
LongWords(text) ==
    With(Concat([i \in 1..Len(text) |->
                    IF IsWord(Char(text, i)) THEN Char(text, i) ELSE " "], 1, Len(text)),
         LAMBDA spaced :
    With(SplitWords(spaced), LAMBDA words :
             {w \in {words[i] : i \in 1..Len(words)} : Len(w) >= 4}))

\* _scrape_program_courses, lines 2003-2011: the words compared by strategy 2
SignificantWords(name_lower) ==
    LongWords(name_lower) \ {"studiengang", "program", "study", "bachelor", "master"}

\* list(a_set): the members in the iteration order of the set, which the
\* hashes of the running interpreter fix; order lists every id once
ListOf(ids, order) == SelectSeq(order, LAMBDA id : id \in ids)

\* seq[:n]
FirstN(seq, n) == SubSeq(seq, 1, IF Len(seq) < n THEN Len(seq) ELSE n)

\* _scrape_module_courses, lines 2055-2061: skip_labels
skip_labels ==
    {"dozent/in", "dozent", "dozentin", "termin", "inhalt", "raum", "room", "zeit",
     "time", "ort", "place", "credits", "ects", "cp", "beschreibung", "description",
     "bemerkung", "note", "literatur", "literature", "anmeldung", "registration",
     "pr" \o NonAscii \o "fung", "exam", "modul", "module", "leuphana bachelor",
     "leuphana semester", "sozialp" \o NonAscii \o "dagogik",
     "wirtschaftsp" \o NonAscii \o "dagogik", "lehrerbildung", "studiengang"}

\* _scrape_module_courses, lines 2064-2066: course_type_indicators
course_type_indicators ==
    {"(seminar)", "(vorlesung)", "(" \o NonAscii \o "bung)", "(praktikum)", "(projekt)",
     "(kolloquium)", "(tutorium)", "(lecture)", "(tutorial)", "(workshop)", "seminar",
     "vorlesung"}

\* _scrape_module_courses, lines 2081-2111: is the heading taken as a course
IsCourseHeading(course_name) ==
    With(Lower(Strip(course_name, Whitespace)), LAMBDA name_lower :
        /\ Len(course_name) >= 8 /\ Len(course_name) <= 200
        /\ ~\E skip \in skip_labels :
               \/ name_lower = skip
               \/ StartsWith(name_lower, skip \o ":")
               \/ EndsWith(name_lower, ":")
        /\ ~EndsWith(name_lower, ":")
        /\ \A skip \in {"suche", "search", "home", "menu", "navigation",
                        "zur" \o NonAscii \o "ck", "back"} : ~Contains(name_lower, skip)
        /\ \/ \E ind \in course_type_indicators : Contains(name_lower, ind)
           \/ /\ Len(course_name) >= 20
              /\ \A prog \in {"bachelor", "master", "b.a.", "m.a.", "b.sc.", "m.sc."} :
                     ~Contains(name_lower, prog))

\* _scrape_module_courses, lines 2137-2150: the course type the name shows
CourseTypeOfHeading(name_lower) ==
    IF Contains(name_lower, "(vorlesung") \/ Contains(name_lower, "vorlesung)") THEN "Lecture"
    ELSE IF Contains(name_lower, "(seminar") \/ Contains(name_lower, "seminar)") THEN "Seminar"
    ELSE IF \/ Contains(name_lower, "(" \o NonAscii \o "bung")
            \/ Contains(name_lower, NonAscii \o "bung)") THEN "Tutorial"
    ELSE IF Contains(name_lower, "(praktikum") \/ Contains(name_lower, "praktikum)")
    THEN "Practical"
    ELSE IF Contains(name_lower, "(projekt") \/ Contains(name_lower, "projekt)") THEN "Project"
    ELSE IF Contains(name_lower, "(kolloquium") THEN "Colloquium"
    ELSE IF Contains(name_lower, "(tutorium") THEN "Tutorial"
    ELSE ""

\* _create_course_entity, lines 2321-2332: the course type the name suggests
CourseTypeOfName(name_lower) ==
    IF Contains(name_lower, "seminar") THEN "Seminar"
    ELSE IF Contains(name_lower, "vorlesung") \/ Contains(name_lower, "lecture") THEN "Lecture"
    ELSE IF Contains(name_lower, NonAscii \o "bung") \/ Contains(name_lower, "tutorial")
    THEN "Tutorial"
    ELSE IF Contains(name_lower, "praktikum") \/ Contains(name_lower, "lab") THEN "Practical"
    ELSE IF Contains(name_lower, "projekt") \/ Contains(name_lower, "project") THEN "Project"
    ELSE ""

\* scraper.py LeuphanaScaper._create_course_entity
_create_course_entity(R, course_name, instructor, program_uri, course_type, source_url) ==
    With(Strip(course_name, Whitespace), LAMBDA name :
    With(Strip(instructor, Whitespace), LAMBDA instructor_name :
    With(create_uri("course", name), LAMBDA course_uri :
    With(IF instructor_name = "" THEN NoRecord
         ELSE FirstOf(SelectSeq(R.persons,
                LAMBDA person : \/ Contains(person.name, instructor_name)
                                \/ Contains(instructor_name, person.name)), NoRecord),
         LAMBDA existing :
    With(/\ instructor_name # "" /\ existing.uri = ""
         /\ (Contains(instructor_name, "Prof.") \/ Contains(instructor_name, "Dr.")),
         LAMBDA created :
    With(extract_name_parts(instructor_name), LAMBDA parts :
    LET new_person == [Person(create_uri("person", instructor_name), instructor_name)
                       EXCEPT !.first_name = parts.first_name,
                              !.last_name = parts.last_name,
                              !.title = parts.title,
                              !.category = IF Contains(instructor_name, "Prof.")
                                           THEN "Professor" ELSE "Lecturer",
                              !.source_url = source_url]
        taught_by == IF existing.uri # "" THEN <<existing.uri>>
                     ELSE IF created THEN <<new_person.uri>>
                     ELSE <<>>
        course == [Course(course_uri, name)
                   EXCEPT !.course_type = IF course_type # "" THEN course_type
                                          ELSE CourseTypeOfName(Lower(name)),
                          !.part_of_program = program_uri,
                          !.taught_by = taught_by,
                          !.source_url = source_url]
        R1 == IF created THEN [R EXCEPT !.persons = Put(@, new_person)] ELSE R
    IN  IF Len(name) < 3 THEN R
        ELSE IF HasKey(R.courses, course_uri) THEN R
        ELSE [R1 EXCEPT !.courses = Put(@, course)]))))))

RECURSIVE CreateCourses(_, _, _, _)
\* _scrape_module_courses, lines 2081-2159: the loop over the headings
CreateCourses(R, headings, program_uri, courses_url) ==
    IF headings = <<>> THEN R
    ELSE With(IF IsCourseHeading(Head(headings).text)
              THEN _create_course_entity(R, Head(headings).text, Head(headings).instructor,
                                         program_uri,
                                         CourseTypeOfHeading(
                                             Lower(Strip(Head(headings).text, Whitespace))),
                                         courses_url)
              ELSE R, LAMBDA R1 :
             CreateCourses(R1, Tail(headings), program_uri, courses_url))

\* scrape_courses, line 1942: base_url
VORLESUNGSVERZEICHNIS_URL == "https://www.leuphana.de/services/vorlesungsverzeichnis.html"

\* scraper.py LeuphanaScaper._scrape_module_courses; the page gives its
\* headings, each with the instructor found after it
_scrape_module_courses(R, modul_id, gebiet_id, program_uri, web) ==
    LET courses_url == VORLESUNGSVERZEICHNIS_URL \o "?mode=veranstaltungsliste&modul_id="
                       \o modul_id \o "&gebiet_id=" \o gebiet_id
        page == web.courses[modul_id]
    IN  IF ~get_soup(courses_url, page).ok THEN Requested(R, courses_url, page)
        ELSE CreateCourses(Requested(R, courses_url, page), page.headings, program_uri,
                           courses_url)

RECURSIVE ScrapeModules(_, _, _, _, _)
ScrapeModules(R, module_ids, area_id, program_uri, web) ==
    IF module_ids = <<>> THEN R
    ELSE ScrapeModules(_scrape_module_courses(R, Head(module_ids), area_id, program_uri, web),
                       Tail(module_ids), area_id, program_uri, web)

\* scraper.py LeuphanaScaper._scrape_area_courses; the page gives the ids its
\* links carry as modul_id
_scrape_area_courses(R, area_id, program_uri, web, order) ==
    LET modules_url == VORLESUNGSVERZEICHNIS_URL \o "?mode=modulliste&gebiet_id=" \o area_id
        page == web.modules[area_id]
    IN  IF ~get_soup(modules_url, page).ok THEN Requested(R, modules_url, page)
        ELSE ScrapeModules(Requested(R, modules_url, page),
                           FirstN(ListOf(page.module_ids, order), 5),
                           area_id, program_uri, web)

RECURSIVE ScrapeAreas(_, _, _, _, _)
ScrapeAreas(R, area_ids, program_uri, web, order) ==
    IF area_ids = <<>> THEN R
    ELSE ScrapeAreas(_scrape_area_courses(R, Head(area_ids), program_uri, web, order),
                     Tail(area_ids), program_uri, web, order)

\* _scrape_program_courses, lines 1993-2020: the program the courses are linked to
MatchingProgram(R, program_name) ==
    With(Lower(program_name), LAMBDA program_name_lower :
    With(FirstOf(SelectSeq(R.programs,
           LAMBDA p : \/ Contains(Lower(p.name), program_name_lower)
                      \/ Contains(program_name_lower, Lower(p.name))), NoRecord),
         LAMBDA by_name :
    With(FirstOf(SelectSeq(R.programs,
           LAMBDA p : Cardinality(SignificantWords(program_name_lower)
                                  \cap SignificantWords(Lower(p.name))) >= 2), NoRecord),
         LAMBDA by_words :
        IF program_name = "" THEN ""
        ELSE IF by_name.uri # "" THEN by_name.uri
        ELSE IF by_words.uri # "" THEN by_words.uri
        ELSE IF \/ Contains(program_name_lower, "bachelor")
                \/ Contains(program_name_lower, "b.a.")
                \/ Contains(program_name_lower, "b.sc.")
        THEN create_uri("school", "College")
        ELSE IF \/ Contains(program_name_lower, "master")
                \/ Contains(program_name_lower, "m.a.")
                \/ Contains(program_name_lower, "m.sc.")
        THEN create_uri("school", "Graduate School")
        ELSE "")))

\* scraper.py LeuphanaScaper._scrape_program_courses; the page gives its h1 and
\* the ids its links carry as gebiet_id
_scrape_program_courses(R, program_id, web, order) ==
    LET areas_url == VORLESUNGSVERZEICHNIS_URL \o "?mode=gebietsliste&studiengang_id="
                     \o program_id
        page == web.areas[program_id]
    IN  IF ~get_soup(areas_url, page).ok THEN Requested(R, areas_url, page)
        ELSE ScrapeAreas(Requested(R, areas_url, page),
                         FirstN(ListOf(page.area_ids, order), 10),
                         MatchingProgram(R, page.h1), web, order)

RECURSIVE ScrapePrograms(_, _, _, _)
\* scrape_courses, lines 1963-1965: the loop over the programs, with its delay
ScrapePrograms(R, program_ids, web, order) ==
    IF program_ids = <<>> THEN R
    ELSE ScrapePrograms(Slept(_scrape_program_courses(R, Head(program_ids), web, order)),
                        Tail(program_ids), web, order)

\* scraper.py LeuphanaScaper.scrape_courses; the catalogue page gives the ids
\* its links carry as studiengang_id
scrape_courses(R, web, order) ==
    IF ~get_soup(VORLESUNGSVERZEICHNIS_URL, web.catalogue).ok
    THEN Requested(R, VORLESUNGSVERZEICHNIS_URL, web.catalogue)
    ELSE ScrapePrograms(Requested(R, VORLESUNGSVERZEICHNIS_URL, web.catalogue),
                        FirstN(ListOf(web.catalogue.program_ids, order), 30), web, order)

\* save_results, lines 2501-2530: the collections of the combined file latest.json
save_results(R) == [c \in DOMAIN EmptyDocument |-> R[c]]


-----------------------------------------------------------------------------
(* Pure functions called on bounded inputs                                 *)

MaxNameLen == 3
\* one character of each class the canonicalizers tell apart
NameAlphabet == {"a", "B", "1", " ", "-", "_", ".", NonAscii}
EntityKinds == {"person", "institute", "school"}

RECURSIVE StringsUpTo(_, _)
StringsUpTo(cs, n) ==
    IF n = 0 THEN {""}
    ELSE LET shorter == StringsUpTo(cs, n - 1)
         IN  shorter \cup {s \o c : s \in shorter, c \in cs}

NoCall == [fn |-> "none"]

InitRegistry ==
    /\ persons = <<>>
    /\ organizations = <<>>
    /\ chairs = <<>>
    /\ hiwi_positions = <<>>
    /\ programs = <<>>
    /\ minors = <<>>
    /\ research_projects = <<>>
    /\ courses = <<>>
    /\ visited_urls = {}
    /\ pc = 1
    /\ pages = 0
    /\ io = <<>>

InitBuilder ==
    /\ graph = <<>>
    /\ phase = "idle"
    /\ doc = EmptyDocument

InitPure ==
    /\ call = NoCall
    /\ ret = ""
    /\ InitRegistry
    /\ InitBuilder

\* the caller has taken the value returned
Return ==
    /\ call # NoCall
    /\ call' = NoCall
    /\ ret' = ""
    /\ UNCHANGED <<builder, registry>>

CallCreateUri ==
    /\ call = NoCall
    /\ \E entity_type \in EntityKinds, name \in StringsUpTo(NameAlphabet, MaxNameLen) :
           /\ call' = [fn |-> "create_uri", entity_type |-> entity_type, name |-> name]
           /\ ret' = create_uri(entity_type, name)
           /\ UNCHANGED <<registry, builder>>

CallNameToUri ==
    /\ call = NoCall
    /\ \E entity_type \in EntityKinds, name \in StringsUpTo(NameAlphabet, MaxNameLen) :
           /\ call' = [fn |-> "name_to_uri", entity_type |-> entity_type, name |-> name]
           /\ ret' = name_to_uri(entity_type, name)
           /\ UNCHANGED <<registry, builder>>

MaxWords == 2
\* words of staff pages, profile texts and names: the keywords the
\* classifier looks for, alone or as the halves of its two-word keywords
CategoryWords ==
    {"Juniorprofessor", "Junior", "Professor", "Jun.-Prof.", "Honorary",
     "Emeritus", "Visiting", "Apl.", "Prof.", "Postdoc", "PhD", "Lecturer",
     "Research", "Assistant", "Scientist", "Student", "HiWi", "Dr.", "Profil",
     "au" \o NonAscii \o "erplanm" \o NonAscii \o NonAscii \o "ig", "Anna"}

RECURSIVE TextsUpTo(_, _)
\* the texts of at most n words, the words separated by one space
TextsUpTo(words, n) ==
    IF n = 0 THEN {""}
    ELSE LET shorter == TextsUpTo(words, n - 1)
         IN  shorter \cup {IF t = "" THEN w ELSE t \o " " \o w :
                             t \in shorter, w \in words}

CallDeterminePersonCategory ==
    /\ call = NoCall
    /\ \E text \in TextsUpTo(CategoryWords, MaxWords),
          url \in {"", BASE_URL_EN \o "/institutes/ie/team/anna-schmidt.html"},
          title \in {"", "Dr.", "Prof. Dr."} :
           /\ call' = [fn |-> "determine_person_category",
                       text |-> text, url |-> url, title |-> title]
           /\ ret' = determine_person_category(text, url, title)
           /\ UNCHANGED <<registry, builder>>

\* add_person on an empty graph, for a record whose category is absent (""),
\* outside the enumeration or in it
CallAddPerson ==
    /\ call = NoCall
    /\ \E category \in {"", "Dean", "professor", "Research Assistant",
                         "Professor", "AcademicStaff"},
          school \in {"", "School of Sustainability"} :
           LET person_data ==
                   [Person(create_uri("person", "Anna Schmidt"), "Anna Schmidt")
                    EXCEPT !.category = category, !.school = school]
           IN  /\ call' = [fn |-> "add_person", person_data |-> person_data]
               /\ ret' = add_person(<<>>, person_data)
    /\ UNCHANGED <<registry, builder>>

\* add_organization on an empty graph, for a record whose org_type is absent,
\* outside the enumeration or in it
CallAddOrganization ==
    /\ call = NoCall
    /\ \E org_type \in {"", "Department", "institute", "Institute", "School"},
          parent \in {"", UNIVERSITY_URI} :
           LET org_data ==
                   [Organization(create_uri("institute", "Institute of Ecology (IE)"),
                                 "Institute of Ecology (IE)", org_type)
                    EXCEPT !.parent = parent]
           IN  /\ call' = [fn |-> "add_organization", org_data |-> org_data]
               /\ ret' = add_organization(<<>>, org_data)
    /\ UNCHANGED <<registry, builder>>

MaxNameWords == 4
\* extract_name_parts on a name as a page gives it: titles, words that start
\* with a title, and names, or a name with other whitespace
CallExtractNameParts ==
    /\ call = NoCall
    /\ \E full_name \in TextsUpTo({"Prof.", "Dr.", "Dipl.-Ing.", "PDF", "Anna",
                                   "Aristoteles"}, MaxNameWords)
                        \cup {"  ", " Anna  Aristoteles ", "Anna" \o "\t" \o "Aristoteles"} :
           /\ call' = [fn |-> "extract_name_parts", full_name |-> full_name]
           /\ ret' = extract_name_parts(full_name)
    /\ UNCHANGED <<registry, builder>>

\* the urls get_soup is called with: allowed ones, one of them with a
\* disallowed text in its query only, and disallowed ones in either case
SoupUrls ==
    {BASE_URL_EN \o "/institutes/ipk.html",
     BASE_URL_EN \o "/search.html?next=/page/2",
     BASE_URL_EN \o "/news/page/2.html",
     BASE_URL \o "/Intranet/start.html",
     BASE_URL \o "/fileadmin/user_upload/intranet/plan.html"}
Responses ==
    {[kind |-> "timeout"], [kind |-> "connection_error"]}
    \cup {[kind |-> "status", status |-> c,
           page |-> [ok |-> TRUE, description |-> "Research and teaching"]] :
              c \in {200, 404, 500}}

CallGetSoup ==
    /\ call = NoCall
    /\ \E url \in SoupUrls, response \in Responses :
           /\ call' = [fn |-> "get_soup", url |-> url, response |-> response]
           /\ ret' = get_soup_call(url, response)
    /\ UNCHANGED <<registry, builder>>

\* the College as a document can hold it: as scrape_school builds a School,
\* and as a School record without parent
CollegeOfTheUniversity ==
    [Organization(COLLEGE_URI, "College", "School") EXCEPT !.parent = UNIVERSITY_URI]
CollegeWithoutParent == Organization(COLLEGE_URI, "College", "School")

\* load_from_json, lines 627-633: the organizations loop, then the core units
CallCreateCoreAcademicUnits ==
    /\ call = NoCall
    /\ \E organizations_data \in
             {<<>>, <<UniversityEntity>>, <<UniversityEntity, CollegeOfTheUniversity>>,
              <<CollegeOfTheUniversity, UniversityEntity>>,
              <<UniversityEntity, CollegeWithoutParent>>} :
           /\ call' = [fn |-> "_create_core_academic_units",
                       organizations |-> organizations_data]
           /\ ret' = _create_core_academic_units(
                         AddRecords(<<>>, "organizations", organizations_data))
    /\ UNCHANGED <<registry, builder>>

\* SCHOOLS_STRUCTURE, config.py: two schools and one institute of each
CultureAndSociety == "School of Culture and Society"
ManagementAndTechnology == "School of Management and Technology"
PhilosophyAndArtHistory == "Institute of Philosophy and Art History (IPK)"
LuneLab == "Institute of Experimental Industrial Psychology - L" \o NonAscii \o "neLab"

\* __init__, lines 324-334: the scraper before its first call
EmptyRegistry ==
    [persons |-> <<>>, organizations |-> <<>>, chairs |-> <<>>, hiwi_positions |-> <<>>,
     programs |-> <<>>, minors |-> <<>>, research_projects |-> <<>>, courses |-> <<>>,
     visited_urls |-> {}, io |-> <<>>]

\* the institutes of the registry, as scrape_institute registers them without
\* a page, in the order of the names
InstitutesRegistered(names) ==
    IF names = <<>> THEN EmptyRegistry
    ELSE LET first == scrape_institute(EmptyRegistry, names[1], CultureAndSociety, "",
                                       NoPage, <<>>)
         IN  IF Len(names) = 1 THEN first
             ELSE scrape_institute(first, names[2], ManagementAndTechnology, "",
                                   NoPage, <<>>)

\* _scrape_chair_page on a chair page below /institute/<segment>/, with the
\* institutes registered in either order
CallScrapeChairPage ==
    /\ call = NoCall
    /\ \E names \in {<<>>, <<PhilosophyAndArtHistory, LuneLab>>,
                      <<LuneLab, PhilosophyAndArtHistory>>},
          segment \in {"ipk", "psychology", "lls"} :
           /\ call' = [fn |-> "_scrape_chair_page", institutes |-> names,
                       segment |-> segment]
           /\ ret' = _scrape_chair_page(
                         InstitutesRegistered(names),
                         BASE_URL \o "/institute/" \o segment
                             \o "/philosophie/professur-fuer-ethik.html",
                         [ok |-> TRUE, h1 |-> "Professur f" \o NonAscii \o "r Ethik",
                          title |-> "", description |-> "", holder_name |-> ""]).chairs
    /\ UNCHANGED <<registry, builder>>

NextPure ==
    \/ CallScrapeChairPage
    \/ CallCreateCoreAcademicUnits
    \/ CallGetSoup
    \/ CallCreateUri
    \/ CallExtractNameParts
    \/ CallNameToUri
    \/ CallDeterminePersonCategory
    \/ CallAddPerson
    \/ CallAddOrganization
    \/ Return

SpecPure == InitPure /\ [][NextPure]_vars

-----------------------------------------------------------------------------
(* C10: the slug create_uri produces consists of a-z, 0-9 and hyphen only,  *)
(* has no two consecutive hyphens and no leading or trailing hyphen, and    *)
(* the uri is the instance namespace, the kind, "/" and that slug.          *)

SlugOf(uri, entity_type) ==
    SubSeq(uri, Len(INSTANCE_NS) + Len(entity_type) + 2, Len(uri))

WellFormedSlug(slug) ==
    /\ \A i \in 1..Len(slug) : IsLowerAlnum(Char(slug, i)) \/ Char(slug, i) = "-"
    /\ ~Contains(slug, "--")
    /\ ~StartsWith(slug, "-")
    /\ ~EndsWith(slug, "-")

C10_SlugWellFormed ==
    call.fn = "create_uri" =>
        /\ StartsWith(ret, INSTANCE_NS \o call.entity_type \o "/")
        /\ WellFormedSlug(SlugOf(ret, call.entity_type))

-----------------------------------------------------------------------------
(* Claims about determine_person_category                                  *)

\* the text the classifier searches: the three arguments of the call
Combined == Lower(call.text \o " " \o call.url \o " " \o call.title)

JuniorMarkers == {"juniorprof", "junior professor", "jun.-prof"}

HasMarker(combined, markers) == \E marker \in markers : Contains(combined, marker)

(* C11 as stated: whenever the concatenation of text, url and title holds  *)
(* both "honorary" and "professor", determine_person_category returns      *)
(* HonoraryProfessor.                                                      *)
C11_HonoraryAlways ==
    call.fn = "determine_person_category" =>
        With(Combined, LAMBDA combined :
            Contains(combined, "honorary") /\ Contains(combined, "professor")
                => ret = "HonoraryProfessor")

(* C11 amended: whenever the concatenation holds both "honorary" and       *)
(* "professor", the result is JuniorProfessor if a junior-professor marker *)
(* is present too and HonoraryProfessor otherwise; it is never Professor.  *)
C11_HonoraryUnlessJunior ==
    call.fn = "determine_person_category" =>
        With(Combined, LAMBDA combined :
            Contains(combined, "honorary") /\ Contains(combined, "professor")
                => /\ ret = IF HasMarker(combined, JuniorMarkers)
                            THEN "JuniorProfessor" ELSE "HonoraryProfessor"
                   /\ ret # "Professor")

C11_Witness ==
    /\ call.fn = "determine_person_category"
    /\ call.text = "Honorary Professor"
    /\ ret = "HonoraryProfessor"

\* the rules of the decision list in the order of the contract: the
\* category and the markers one of which the text must hold
CategoryRules ==
    <<<<"JuniorProfessor", JuniorMarkers>>,
      <<"HonoraryProfessor", {"honorar", "honorary"}>>,
      <<"EmeritusProfessor", {"emerit"}>>,
      <<"VisitingProfessor", {"gastprof", "visiting prof"}>>,
      <<"AdjunctProfessor",
        {"apl.", "adjunct",
         "au" \o NonAscii \o "erplanm" \o NonAscii \o NonAscii \o "ig"}>>,
      <<"Professor", {"prof.", "professor"}>>,
      <<"PostDoc", {"post-doc", "postdoc"}>>,
      <<"PhDStudent", {"phd", "doktorand", "doctoral"}>>,
      <<"Lecturer", {"lecturer", "lektor", "lehrbeauft"}>>,
      <<"ResearchAssistant", {"research assistant", "wissenschaftl"}>>,
      <<"VisitingScientist", {"visiting scientist", "gastwissenschaft"}>>,
      <<"StudentAssistant", {"hiwi", "student assistant", "hilfskraft"}>>>>

\* the category the decision list gives a text whose matching rules are
\* those numbered in matching
FirstMatchingCategory(combined, matching) ==
    IF matching # {}
    THEN CategoryRules[CHOOSE i \in matching : \A j \in matching : i <= j][1]
    ELSE IF Contains(combined, "dr.") /\ ~Contains(combined, "prof") THEN "PostDoc"
    ELSE "AcademicStaff"

(* C12: determine_person_category returns the category of the first rule   *)
(* of the decision list one of whose markers occurs in the lower-cased     *)
(* concatenation of text, url and title; when no rule matches, PostDoc if  *)
(* a doctoral title is present and no professor marker, else AcademicStaff.*)
C12_OrderedDecisionList ==
    call.fn = "determine_person_category" =>
        With(Combined, LAMBDA combined :
            ret = FirstMatchingCategory(combined,
                    {i \in 1..Len(CategoryRules) :
                        HasMarker(combined, CategoryRules[i][2])}))

\* a call in which two rules match and the earlier one decides, and the
\* doctoral title of the call decides nothing
C12_Witness ==
    /\ call.fn = "determine_person_category"
    /\ call.text = "Lecturer PhD"
    /\ call.title = "Dr."
    /\ ret = "PhDStudent"

-----------------------------------------------------------------------------
(* Claims about extract_name_parts                                         *)

\* the words of the name: its maximal runs of characters other than
\* whitespace, in order
TokensOf(full_name) ==
    LET starts == {i \in 1..Len(full_name) :
                      /\ Char(full_name, i) \notin Whitespace
                      /\ i = 1 \/ Char(full_name, i - 1) \in Whitespace}
        end(i) == CHOOSE k \in i..Len(full_name) :
                      /\ \A m \in i..k : Char(full_name, m) \notin Whitespace
                      /\ k = Len(full_name) \/ Char(full_name, k + 1) \in Whitespace
        nth(n) == CHOOSE i \in starts : Cardinality({m \in starts : m < i}) = n - 1
    IN  [n \in 1..Cardinality(starts) |-> SubSeq(full_name, nth(n), end(nth(n)))]

\* the token equals an academic title or starts with one
IsTitleToken(token) ==
    \E t \in titles : Len(t) <= Len(token) /\ SubSeq(token, 1, Len(t)) = t

\* the length of the longest run of title tokens the tokens begin with
TitleRun(tokens) ==
    CHOOSE n \in 0..Len(tokens) :
        /\ \A i \in 1..n : IsTitleToken(tokens[i])
        /\ n < Len(tokens) => ~IsTitleToken(tokens[n + 1])

(* C14: extract_name_parts returns as title the longest run of tokens at   *)
(* the start of the name that equal or start with an academic title,       *)
(* joined by spaces, and no title when that run is empty; of the other     *)
(* tokens the last is lastName and those before it, joined by spaces, are  *)
(* firstName; firstName is absent when one token remains; lastName is      *)
(* never absent.                                                           *)
C14_NameParts ==
    call.fn = "extract_name_parts" =>
        With(TokensOf(call.full_name), LAMBDA tokens :
        With(TitleRun(tokens), LAMBDA n :
        LET rest == SubSeq(tokens, n + 1, Len(tokens)) IN
            /\ "title" \in ret.absent <=> n = 0
            /\ n > 0 => ret.title = Join(SubSeq(tokens, 1, n), " ")
            /\ "first_name" \in ret.absent <=> Len(rest) < 2
            /\ Len(rest) >= 2 =>
                   ret.first_name = Join(SubSeq(rest, 1, Len(rest) - 1), " ")
            /\ Len(rest) >= 1 => ret.last_name = rest[Len(rest)]
            /\ "last_name" \notin ret.absent))

\* a name made of titles only: they are the title, and lastName is given
C14_Witness ==
    /\ call.fn = "extract_name_parts"
    /\ call.full_name = "Prof. Dr."
    /\ ret.title = "Prof. Dr."
    /\ "first_name" \in ret.absent
    /\ "last_name" \notin ret.absent

-----------------------------------------------------------------------------
(* Claims about the closed enumerations                                    *)

\* the classes the graph g gives the subject uri
TypesOf(g, uri) == {t[3] : t \in {a \in Triples(g) : a[1] = uri /\ a[2] = "rdf:type"}}

(* C13: for a Person record whose category is absent or a string outside   *)
(* the enumeration, add_person emits the class AcademicStaff and the       *)
(* generic Person type and no other type; for an Organization record whose *)
(* org_type is outside the enumeration, add_organization emits the generic *)
(* Organization type and no other; every category the scraper stores (a    *)
(* result of determine_person_category or one of the literals of its       *)
(* handlers) is a member of the enumeration add_person maps.               *)
C13_ClosedEnumerations ==
    /\ (call.fn = "add_person" /\ call.person_data.category \notin PersonCategories)
            => TypesOf(ret, call.person_data.uri) = {"leuph:AcademicStaff", "foaf:Person"}
    /\ (call.fn = "add_organization" /\ call.org_data.org_type \notin DOMAIN OrgTypeMapping)
            => TypesOf(ret, call.org_data.uri) = {"foaf:Organization"}
    /\ call.fn = "determine_person_category" => ret \in PersonCategories
    /\ {"Professor", "Lecturer", "ResearchAssistant", "StudentAssistant",
         "AdministrativeStaff"} \subseteq PersonCategories

C13_Witness ==
    /\ call.fn = "add_person"
    /\ call.person_data.category = "Dean"
    /\ InGraph(ret, <<call.person_data.uri, "rdf:type", "leuph:AcademicStaff">>)

-----------------------------------------------------------------------------
(* RDFGenerator: load_from_json read one record at a time, and calls of    *)
(* _resolve_org_uri on the graph built so far                              *)

MaxRecords == 3

SchoolOfSustainability ==
    [Organization(create_uri("school", "School of Sustainability"),
                  "School of Sustainability", "School")
     EXCEPT !.parent = UNIVERSITY_URI]
InstituteOfEnglishStudies ==
    [Organization(create_uri("institute", "Institute of English Studies (IES)"),
                  "Institute of English Studies (IES)", "Institute")
     EXCEPT !.abbreviation = "IES",
            !.parent = create_uri("school", "School of Education")]
InstituteOfEcology ==
    [Organization(create_uri("institute", "Institute of Ecology (IE)"),
                  "Institute of Ecology (IE)", "Institute")
     EXCEPT !.abbreviation = "IE",
            !.parent = create_uri("school", "School of Sustainability")]
\* scrape_research_centers on /zentren/cdc.html: the name is the heading of
\* the page, which holds no abbreviation, so the abbreviation is that of the url
CenterForDigitalCultures ==
    [Organization(create_uri("research-center", "Centre for Digital Cultures"),
                  "Centre for Digital Cultures", "ResearchCenter")
     EXCEPT !.abbreviation = "CDC", !.parent = UNIVERSITY_URI,
            !.webpage = BASE_URL \o "/zentren/cdc.html",
            !.source_url = BASE_URL \o "/zentren/cdc.html"]
AnnaSchmidtUri == create_uri("person", "Anna Schmidt")
BachelorProgramUri == create_uri("program", "Environmental Sciences")

\* the records a combined document of the model is made of, by collection
Candidates ==
    [organizations |->
        {UniversityEntity, SchoolOfSustainability, InstituteOfEnglishStudies,
         InstituteOfEcology, CenterForDigitalCultures},
     chairs |->
        {[Chair(create_uri("chair", "Chair of Ecology"), "Chair of Ecology")
          EXCEPT !.parent = InstituteOfEcology.uri, !.headed_by = AnnaSchmidtUri],
         Chair(create_uri("chair", "Chair of Ethics"), "Chair of Ethics")},
     hiwi_positions |->
        {[HiwiPosition(create_uri("hiwi", "Student Assistant Ecology"),
                       "Student Assistant Ecology")
          EXCEPT !.department = "Institute of Ecology (IE)"]},
     persons |->
        {Person(AnnaSchmidtUri, "Anna Schmidt"),
         [Person(create_uri("person", "Ben Maier"), "Ben Maier")
          EXCEPT !.institute = "IE", !.category = "Professor"],
         [Person(create_uri("person", "Cem Kaya"), "Cem Kaya")
          EXCEPT !.institute = "CDC", !.school = "School of Sustainability"]},
     programs |->
        {[StudyProgram(BachelorProgramUri, "Environmental Sciences", "BachelorProgram")
          EXCEPT !.offered_by = create_uri("school", "College")],
         StudyProgram(create_uri("program", "Doctoral Studies"), "Doctoral Studies",
                      "DoctoralProgram")},
     minors |->
        {[Minor(create_uri("minor", "Philosophy"), "Philosophy")
          EXCEPT !.offered_by = COLLEGE_URI],
         Minor(create_uri("minor", "Economics"), "Economics")},
     research_projects |->
        {[ResearchProject(create_uri("project", "Soil Life"), "Soil Life")
          EXCEPT !.conducted_by = create_uri("institute", "ie"),
                 !.principal_investigator = AnnaSchmidtUri],
         ResearchProject(create_uri("project", "Open Data"), "Open Data")},
     courses |->
        {[Course(create_uri("course", "Ecology 1"), "Ecology 1")
          EXCEPT !.part_of_program = BachelorProgramUri,
                 !.taught_by = <<AnnaSchmidtUri>>],
         Course(create_uri("course", "Statistics"), "Statistics")}]

\* the soft references _resolve_org_uri is called with
SoftReferences ==
    {"", "ie", "/",
     INSTANCE_NS \o "institute/ie",
     INSTANCE_NS \o "research-center/ie",
     INSTANCE_NS \o "department/ie",
     INSTANCE_NS \o "institute/cdc/",
     INSTANCE_NS \o "school/leuphana",
     InstituteOfEcology.uri}

\* a load_from_json whose persons loop stands before its chairs loop
Rank_persons_first(p) ==
    CASE p = "idle" -> 0
      [] p = "organizations" -> 1
      [] p = "core_units" -> 2
      [] p = "persons" -> 3
      [] p = "hiwi_positions" -> 4
      [] p = "chairs" -> 5
      [] p = "programs" -> 6
      [] p = "minors" -> 7
      [] p = "research_projects" -> 8
      [] p = "courses" -> 9
      [] p = "done" -> 10

\* load_from_json: the position of each loop in the method
Rank(p) ==
    CASE p = "idle" -> 0
      [] p = "organizations" -> 1
      [] p = "core_units" -> 2
      [] p = "chairs" -> 3
      [] p = "hiwi_positions" -> 4
      [] p = "persons" -> 5
      [] p = "programs" -> 6
      [] p = "minors" -> 7
      [] p = "research_projects" -> 8
      [] p = "courses" -> 9
      [] p = "done" -> 10

RecordCount(data) ==
    Len(data.organizations) + Len(data.chairs) + Len(data.hiwi_positions)
    + Len(data.persons) + Len(data.programs) + Len(data.minors)
    + Len(data.research_projects) + Len(data.courses)

\* one iteration of the loop of load_from_json over the given collection: the
\* next record of the document (records of a collection have distinct keys)
Process(collection) ==
    /\ call = NoCall
    /\ Rank(phase) <= Rank(collection)
    /\ collection # "organizations" => Rank(phase) >= Rank("core_units")
    /\ RecordCount(doc) < MaxRecords
    /\ \E record \in Candidates[collection] :
           /\ \A i \in 1..Len(doc[collection]) : doc[collection][i].uri # record.uri
           /\ graph' = AddRecord(graph, collection, record)
           /\ doc' = [doc EXCEPT ![collection] = Append(@, record)]
    /\ phase' = collection
    /\ call' = NoCall
    /\ ret' = ""
    /\ UNCHANGED registry

\* load_from_json, line 633
CreateCoreAcademicUnits ==
    /\ call = NoCall
    /\ Rank(phase) < Rank("core_units")
    /\ graph' = _create_core_academic_units(graph)
    /\ phase' = "core_units"
    /\ call' = NoCall
    /\ ret' = ""
    /\ UNCHANGED <<doc, registry>>

\* load_from_json returns
Finish ==
    /\ call = NoCall
    /\ Rank("core_units") <= Rank(phase)
    /\ phase # "done"
    /\ phase' = "done"
    /\ call' = NoCall
    /\ ret' = ""
    /\ UNCHANGED <<graph, doc, registry>>

\* a call of _resolve_org_uri on the current graph
ResolveCall ==
    /\ call = NoCall
    /\ \E uri_string \in SoftReferences :
           LET resolved == _resolve_org_uri(graph, uri_string)
           IN  /\ call' = [fn |-> "_resolve_org_uri", uri_string |-> uri_string]
               /\ ret' = resolved.uri
               /\ graph' = resolved.graph
    /\ UNCHANGED <<phase, doc, registry>>

Init ==
    /\ call = NoCall
    /\ ret = ""
    /\ InitRegistry
    /\ InitBuilder

Next ==
    \/ Process("organizations")
    \/ CreateCoreAcademicUnits
    \/ Process("chairs")
    \/ Process("hiwi_positions")
    \/ Process("persons")
    \/ Process("programs")
    \/ Process("minors")
    \/ Process("research_projects")
    \/ Process("courses")
    \/ Finish
    \/ ResolveCall
    \/ Return

Spec == Init /\ [][Next]_vars

\* the graph load_from_json leaves is the graph of its loops
LoadedGraphIsLoadFromJson ==
    phase = "done" => graph = load_from_json(<<>>, doc)

-----------------------------------------------------------------------------
(* Claims about the graph load_from_json builds and about _resolve_org_uri *)

PathEdges ==
    {"leuph:memberOf", "leuph:worksAt", "leuph:affiliatedWith", "leuph:partOf",
     "leuph:offeredBy", "leuph:conductedBy"}

EntityClasses ==
    {"foaf:Person", "leuph:Chair", "leuph:Course", "leuph:StudyProgram",
     "leuph:BachelorProgram", "leuph:MasterProgram", "leuph:DoctoralProgram",
     "leuph:Minor", "leuph:ResearchProject"}

\* the nodes typed with one of the classes
NodesOf(g, classes) ==
    {t[1] : t \in {u \in Triples(g) : u[2] = "rdf:type" /\ u[3] \in classes}}

RECURSIVE ReachingSet(_, _)
\* the nodes with a directed path of relationship edges into the set S
ReachingSet(g, S) ==
    LET S2 == S \cup {t[1] : t \in {u \in Triples(g) : u[2] \in PathEdges /\ u[3] \in S}}
    IN  IF S2 = S THEN S ELSE ReachingSet(g, S2)

(* C1: after load_from_json has processed a document, every Person, Chair,  *)
(* Course, StudyProgram, Minor and ResearchProject of the graph has a       *)
(* directed path of memberOf, worksAt, affiliatedWith, partOf, offeredBy or *)
(* conductedBy edges that ends at the University root.                      *)
C1_EveryEntityReachesUniversity ==
    phase = "done" =>
        NodesOf(graph, EntityClasses) \subseteq ReachingSet(graph, {UNIVERSITY_URI})

\* the reference without trailing slashes, cut at its slashes
Segments(ref) == Split(RStrip(ref, {"/"}), "/")
TrailingSegment(ref) == Lower(Segments(ref)[Len(Segments(ref))])
HintedKind(ref) ==
    IF Len(Segments(ref)) >= 2 THEN Segments(ref)[Len(Segments(ref)) - 1] ELSE ""
OrganizationKinds ==
    [k \in {"institute", "research-center", "school"} |->
        CASE k = "institute" -> "leuph:Institute"
          [] k = "research-center" -> "leuph:ResearchCenter"
          [] k = "school" -> "leuph:School"]
\* the typed nodes of the kind the reference hints at
HintedCandidates(g, ref) ==
    IF HintedKind(ref) \in DOMAIN OrganizationKinds
    THEN NodesOf(g, {OrganizationKinds[HintedKind(ref)]})
    ELSE {}
AbbreviationEquals(g, s, segment) ==
    \E t \in Triples(g) : t[1] = s /\ t[2] = "leuph:abbreviation" /\ Lower(t[3]) = segment
UriContains(s, segment) == Contains(Lower(s), segment)

Resolved == call.fn = "_resolve_org_uri"

(* C3: _resolve_org_uri returns a uri for every soft reference and every    *)
(* graph; the uri is a node typed in the graph or the University root, and  *)
(* it is the University root when neither the exact uri nor a candidate of  *)
(* the hinted kind matches.                                                 *)
C3_ResolveTotal ==
    Resolved =>
        LET ref == call.uri_string
            segment == TrailingSegment(ref)
        IN  /\ ret # ""
            /\ ret = UNIVERSITY_URI \/ IsTyped(graph, ret)
            /\ (/\ ~IsTyped(graph, ref)
                /\ \A s \in HintedCandidates(graph, ref) :
                       ~UriContains(s, segment) /\ ~AbbreviationEquals(graph, s, segment))
               => ret = UNIVERSITY_URI

\* a reference of kind institute that no registered Institute matches falls back
C3_Witness ==
    /\ Resolved
    /\ HintedKind(call.uri_string) = "institute"
    /\ HintedCandidates(graph, call.uri_string) # {}
    /\ ~IsTyped(graph, call.uri_string)
    /\ ret = UNIVERSITY_URI

(* C4: when the reference is not an exact uri, one candidate of the hinted  *)
(* kind has a stored abbreviation equal to the trailing segment and another *)
(* only contains the segment in its uri, the resolver returns the candidate *)
(* with the equal abbreviation, whatever the registration order.            *)
C4_AbbreviationBeforeSubstring ==
    Resolved =>
        LET ref == call.uri_string
            segment == TrailingSegment(ref)
            equal == {s \in HintedCandidates(graph, ref) :
                        AbbreviationEquals(graph, s, segment)}
            containing == {s \in HintedCandidates(graph, ref) : UriContains(s, segment)}
        IN  (~IsTyped(graph, ref) /\ equal # {} /\ containing \ equal # {})
                => ret \in equal

(* C5: when the hinted kind is absent or unknown, or no candidate of the    *)
(* hinted kind matches, the resolver returns an Institute, ResearchCenter   *)
(* or School whose uri contains the trailing segment, if there is one,      *)
(* before it falls back to the University root.                             *)
C5_BroaderOrganizationSearch ==
    Resolved =>
        LET ref == call.uri_string
            segment == TrailingSegment(ref)
            hinted == {s \in HintedCandidates(graph, ref) :
                         UriContains(s, segment) \/ AbbreviationEquals(graph, s, segment)}
            broader == {s \in NodesOf(graph, {"leuph:Institute", "leuph:ResearchCenter",
                                              "leuph:School"}) :
                          UriContains(s, segment)}
        IN  (~IsTyped(graph, ref) /\ segment # "" /\ hinted = {} /\ broader # {})
                => ret \in broader

(* C6: a call of _resolve_org_uri adds no triple to and removes no triple   *)
(* from the graph, and a second call with the same reference in the same    *)
(* graph state returns the same target.                                     *)
C6_ResolveReadOnlyIdempotent ==
    [][call'.fn = "_resolve_org_uri" =>
          /\ graph' = graph
          /\ _resolve_org_uri(graph', call'.uri_string).uri = ret']_vars

\* a reference that matched nothing was resolved to the fallback in a graph
\* that holds organizations
C6_Witness ==
    /\ Resolved
    /\ call.uri_string # ""
    /\ ~IsTyped(graph, call.uri_string)
    /\ NodesOf(graph, {"leuph:Institute"}) # {}
    /\ ret = UNIVERSITY_URI
    /\ phase = "done"

-----------------------------------------------------------------------------
(* The pipeline: LeuphanaScaper.run with a sitemap file, then               *)
(* RDFGenerator.load_from_json on the combined file run saved.  The run of  *)
(* the model visits two schools of SCHOOLS_STRUCTURE with one institute     *)
(* each, one staff directory, a sitemap that lists one person url and one   *)
(* chair url, and the Hiwi listing; the stages of run that the model leaves *)
(* out register nothing when their requests fail.                           *)

MaxPages == 3

\* run, lines 2371-2424 over the bounded configuration: the calls in order
RunTasks ==
    <<[op |-> "create_university_entity"],
      [op |-> "scrape_school", name |-> CultureAndSociety,
       url |-> "/en/institutions/faculty/humanities-social-sciences.html"],
      [op |-> "scrape_institute", name |-> PhilosophyAndArtHistory,
       school_name |-> CultureAndSociety, url |-> "/en/institutes/ipk.html"],
      [op |-> "scrape_school", name |-> ManagementAndTechnology,
       url |-> "/en/institutions/faculty/management-and-technology.html"],
      [op |-> "scrape_institute", name |-> LuneLab,
       school_name |-> ManagementAndTechnology, url |-> "/en/institutes/luenelab.html"],
      [op |-> "scrape_person_list_page",
       url |-> BASE_URL_EN \o "/institutions/faculty/humanities-social-sciences/about-the-school/deans-office.html"],
      [op |-> "scrape_person_from_sitemap",
       url |-> BASE_URL \o "/institute/ipk/personen/anna-schmidt.html"],
      [op |-> "scrape_chair_from_sitemap",
       url |-> BASE_URL \o "/institute/ipk/philosophie/professur-fuer-ethik.html"],
      [op |-> "scrape_hiwi_positions"],
      [op |-> "scrape_study_programs", prog_key |-> "bachelor",
       url |-> BASE_URL_EN \o "/college/bachelor.html"],
      [op |-> "scrape_courses"],
      [op |-> "save_results"]>>

AnnaSchmidt == "Anna Schmidt"
ProfAnnaSchmidt == "Prof. Dr. Anna Schmidt"
TeamUrl == BASE_URL_EN \o "/institutes/ipk/team/anna-schmidt.html"
HiwiUrl ==
    BASE_URL \o "/universitaet/jobs-und-karriere/hilfskraefte/hilfskraefte-ansicht/2024/05/13/shk.html"

\* what the requests of the run can be answered with
SchoolPages == {NoPage, [ok |-> TRUE, description |-> "Research and teaching"]}
ProfilePages ==
    {NoPage,
     [ok |-> TRUE, name |-> ProfAnnaSchmidt, page_text |-> "Professor of Ethics",
      email |-> "anna.schmidt@leuphana.de", phone |-> "", office |-> "C5.123",
      research_areas |-> <<"Ethics">>]}
TeamLinkLists ==
    {<<>>,
     <<[name |-> AnnaSchmidt, url |-> TeamUrl]>>,
     <<[name |-> ProfAnnaSchmidt, url |-> TeamUrl]>>,
     <<[name |-> AnnaSchmidt, url |-> TeamUrl],
       [name |-> ProfAnnaSchmidt, url |-> TeamUrl]>>}
InstitutePages ==
    {NoPage} \cup {[ok |-> TRUE, description |-> "", team_links |-> l] : l \in TeamLinkLists}
PersonLinks ==
    <<[href |-> BASE_URL \o "/universitaet/personen/anna-schmidt.html",
       name |-> AnnaSchmidt, email |-> ""],
      [href |-> BASE_URL \o "/universitaet/personen/prof-anna-schmidt.html",
       name |-> ProfAnnaSchmidt, email |-> "a.schmidt@leuphana.de"]>>
ListPages ==
    {NoPage} \cup {[ok |-> TRUE, links |-> l] :
                     l \in {<<PersonLinks[1]>>, <<PersonLinks[2]>>, PersonLinks}}
PersonPages ==
    {NoPage,
     [ok |-> TRUE, h1 |-> AnnaSchmidt, title |-> "", email |-> "",
      phone |-> "04131 677-1234", office |-> "", institute |-> "",
      page_text |-> "Research Assistant"],
     [ok |-> TRUE, h1 |-> "", title |-> "Publications", email |-> "", phone |-> "",
      office |-> "", institute |-> "", page_text |-> ""]}
ChairPages ==
    {NoPage} \cup
    {[ok |-> TRUE, h1 |-> "Professur f" \o NonAscii \o "r Ethik", title |-> "",
      description |-> "", holder_name |-> h] : h \in {"", ProfAnnaSchmidt}}
HiwiListPages ==
    {NoPage, [ok |-> TRUE, links |-> <<[text |-> "SHK Ethik", href |-> HiwiUrl]>>]}
PositionPages ==
    {NoPage} \cup
    {[ok |-> TRUE, h1 |-> "Studentische Hilfskraft", description |-> "",
      contact_email |-> "", hours_per_week |-> "", page_text |-> t] :
        t \in {"Das Institut IPK sucht eine Hilfskraft", "Hilfskraft am " \o LuneLab,
              "Hilfskraft gesucht"}}

ProgramUrl == BASE_URL_EN \o "/college/bachelor/major-cultural-studies.html"
ProgramListPages ==
    {NoPage,
     [ok |-> TRUE, links |-> <<[text |-> "Major Cultural Studies", href |-> ProgramUrl]>>,
      section_links |-> <<>>],
     [ok |-> TRUE, links |-> <<[text |-> "Apply now", href |-> ProgramUrl]>>,
      section_links |-> <<[text |-> "Major Cultural Studies", href |-> ProgramUrl]>>]}
ProgramPages ==
    {NoPage,
     [ok |-> TRUE, description |-> "Culture in theory and practice",
      duration |-> "6 semesters", language |-> "German"]}

\* the catalogue: one program with one area, whose modules each list one course
ModuleIds == {"1", "2", "3", "4", "5", "6"}
CourseWebs ==
    {[catalogue |-> c,
      areas |-> [p \in {"1"} |->
                    [ok |-> TRUE, h1 |-> "Bachelor Kulturwissenschaften", area_ids |-> {"7"}]],
      modules |-> [a \in {"7"} |-> [ok |-> TRUE, module_ids |-> ModuleIds]],
      courses |-> [m \in ModuleIds |->
                      [ok |-> TRUE,
                       headings |-> <<[text |-> "Ethik " \o m \o " (Seminar)",
                                       instructor |-> IF m = "6" THEN "Dr. Eva Lang"
                                                      ELSE ""]>>]]] :
        c \in {NoPage, [ok |-> TRUE, program_ids |-> {"1"}]}}
\* two of the orders in which a set of these ids can be iterated
IterationOrders ==
    {<<"1", "2", "3", "4", "5", "6", "7">>, <<"7", "6", "5", "4", "3", "2", "1">>}

\* the scraper's state as the methods take it
Registry ==
    [persons |-> persons, organizations |-> organizations, chairs |-> chairs,
     hiwi_positions |-> hiwi_positions, programs |-> programs, minors |-> minors,
     research_projects |-> research_projects, courses |-> courses,
     visited_urls |-> visited_urls, io |-> io]

\* the method at RunTasks[pc] runs and leaves the state R; got tells whether
\* its request was answered with a page
Ran(op, R, got) ==
    /\ persons' = R.persons
    /\ organizations' = R.organizations
    /\ chairs' = R.chairs
    /\ hiwi_positions' = R.hiwi_positions
    /\ programs' = R.programs
    /\ minors' = R.minors
    /\ research_projects' = R.research_projects
    /\ courses' = R.courses
    /\ visited_urls' = R.visited_urls
    /\ io' = R.io
    /\ pc' = pc + 1
    /\ pages' = IF got THEN pages + 1 ELSE pages
    /\ call' = NoCall
    /\ ret' = ""

Task == RunTasks[pc]
At(op) == pc <= Len(RunTasks) /\ Task.op = op
MayFetch(page) == page.ok => pages < MaxPages

CreateUniversityEntity ==
    /\ At("create_university_entity")
    /\ Ran("create_university_entity", create_university_entity(Registry), FALSE)
    /\ UNCHANGED builder

ScrapeSchool ==
    /\ At("scrape_school")
    /\ \E page \in SchoolPages :
           /\ MayFetch(page)
           /\ Ran("scrape_school", scrape_school(Registry, Task.name, Task.url, page),
                  page.ok)
    /\ UNCHANGED builder

\* scrape_all_schools, lines 718-721: the institute of the school, the delay
\* after it and the delay after the school
ScrapeInstitute ==
    /\ At("scrape_institute")
    /\ \E page \in InstitutePages, profile \in ProfilePages :
           /\ MayFetch(page)
           /\ page.ok \/ profile = NoPage
           /\ Ran("scrape_institute",
                  Slept(Slept(scrape_institute(Registry, Task.name, Task.school_name,
                                               Task.url, page,
                                               [u \in {TeamUrl} |-> profile]))),
                  page.ok)
    /\ UNCHANGED builder

\* scrape_staff_directories, lines 723-732: the list page, then the delay
ScrapePersonListPage ==
    /\ At("scrape_person_list_page")
    /\ \E page \in ListPages :
           /\ MayFetch(page)
           /\ Ran("scrape_person_list_page",
                  Slept(scrape_person_list_page(Registry, Task.url, "", page)), page.ok)
    /\ UNCHANGED builder

ScrapePersonFromSitemap ==
    /\ At("scrape_person_from_sitemap")
    /\ \E page \in PersonPages :
           /\ MayFetch(page)
           /\ Ran("scrape_person_from_sitemap",
                  scrape_person_from_sitemap(Registry, Task.url, page), page.ok)
    /\ UNCHANGED builder

ScrapeChairFromSitemap ==
    /\ At("scrape_chair_from_sitemap")
    /\ \E page \in ChairPages :
           /\ MayFetch(page)
           /\ Ran("scrape_chair_from_sitemap",
                  scrape_chair_from_sitemap(Registry, Task.url, page), page.ok)
    /\ UNCHANGED builder

ScrapeHiwiPositions ==
    /\ At("scrape_hiwi_positions")
    /\ \E page \in HiwiListPages, position \in PositionPages :
           /\ MayFetch(page)
           /\ page.ok \/ position = NoPage
           /\ Ran("scrape_hiwi_positions",
                  scrape_hiwi_positions(Registry, page, [u \in {HiwiUrl} |-> position]),
                  page.ok)
    /\ UNCHANGED builder

\* run, line 2410: scrape_study_programs, for the bachelor seed page
ScrapeStudyPrograms ==
    /\ At("scrape_study_programs")
    /\ \E page \in ProgramListPages, program \in ProgramPages :
           /\ MayFetch(page)
           /\ page.ok \/ program = NoPage
           /\ Ran("scrape_study_programs",
                  scrape_study_programs(Registry, Task.prog_key, Task.url, page,
                                        [u \in {ProgramUrl} |-> program]),
                  page.ok)
    /\ UNCHANGED builder

\* run, line 2417: scrape_courses
ScrapeCourses ==
    /\ At("scrape_courses")
    /\ \E web \in CourseWebs, order \in IterationOrders :
           /\ MayFetch(web.catalogue)
           /\ Ran("scrape_courses", scrape_courses(Registry, web, order), web.catalogue.ok)
    /\ UNCHANGED builder

\* run, line 2424: save_results writes the combined file
SaveResults ==
    /\ At("save_results")
    /\ doc' = save_results(Registry)
    /\ Ran("save_results", Registry, FALSE)
    /\ UNCHANGED <<graph, phase>>

\* rdf_generator.py: load_from_json on the combined file, into an empty graph
LoadFromJson ==
    /\ pc = Len(RunTasks) + 1
    /\ phase = "idle"
    /\ graph' = load_from_json(<<>>, doc)
    /\ phase' = "done"
    /\ call' = NoCall
    /\ ret' = ""
    /\ UNCHANGED <<doc, registry>>

InitPipeline ==
    /\ call = NoCall
    /\ ret = ""
    /\ InitRegistry
    /\ InitBuilder

NextPipeline ==
    \/ CreateUniversityEntity
    \/ ScrapeSchool
    \/ ScrapeInstitute
    \/ ScrapePersonListPage
    \/ ScrapePersonFromSitemap
    \/ ScrapeChairFromSitemap
    \/ ScrapeHiwiPositions
    \/ ScrapeStudyPrograms
    \/ ScrapeCourses
    \/ SaveResults
    \/ LoadFromJson

SpecPipeline == InitPipeline /\ [][NextPipeline]_vars

-----------------------------------------------------------------------------
(* Claims about the pipeline                                                *)

RelationshipPredicates ==
    {"leuph:partOf", "leuph:memberOf", "leuph:worksAt", "leuph:postedBy",
     "leuph:offeredBy", "leuph:conductedBy", "leuph:headedBy", "leuph:taughtBy",
     "leuph:hasPart", "leuph:hasMember", "leuph:hasEmployee", "leuph:offers",
     "leuph:conducts", "leuph:heads", "leuph:teaches"}

(* C2: for any registry the scraper run can produce, the graph load_from_json *)
(* builds from the saved file has no dangling reference: every target of a    *)
(* partOf, memberOf, worksAt, postedBy, offeredBy, conductedBy, headedBy or   *)
(* taughtBy triple, and of their inverses, is the subject of a type triple.   *)
C2_NoDanglingReference ==
    phase = "done" =>
        \A t \in Triples(graph) :
            t[2] \in RelationshipPredicates => IsTyped(graph, t[3])

\* one name contains the other, case-insensitively
NameContained(a, b) ==
    Contains(Lower(a), Lower(b)) \/ Contains(Lower(b), Lower(a))

(* C7: on every person-registration path, when a Person named N is registered *)
(* and a later sighting carries a name that contains N or is contained in N,  *)
(* no second Person entry is created: no two entries of the persons registry  *)
(* have names of which one contains the other.                                *)
C7_PersonsDeduplicated ==
    \A i, j \in 1..Len(persons) :
        i # j => ~NameContained(persons[i].name, persons[j].name)

\* the record of the collection after the step keeps every value that the
\* record with the same uri had set before the step
ListFields == {"members", "research_areas", "taught_by", "team_members"}
HasSet(record, field) ==
    IF field \in ListFields THEN record[field] # <<>> ELSE record[field] # ""
KeepsSetValues(before, after) ==
    \A i \in 1..Len(before), j \in 1..Len(after) :
        before[i].uri = after[j].uri =>
            \A field \in DOMAIN before[i] :
                HasSet(before[i], field) => after[j][field] = before[i][field]

(* C8: when a sighting canonicalizes to a uri that is already in its registry *)
(* collection, the existing record's value wins for every attribute it has    *)
(* set: no step of the run replaces or erases a value that a registered       *)
(* record of any collection has set.                                          *)
C8_FirstWriteWins ==
    [][/\ KeepsSetValues(persons, persons')
       /\ KeepsSetValues(organizations, organizations')
       /\ KeepsSetValues(chairs, chairs')
       /\ KeepsSetValues(hiwi_positions, hiwi_positions')]_vars

\* the kind each registration path of the run passes to create_uri
KindOfOrganization(org_type) ==
    IF org_type = "School" THEN "school"
    ELSE IF org_type = "Institute" THEN "institute"
    ELSE "university"

(* C9: create_uri is deterministic and total: for every kind and name, the    *)
(* empty name included, it returns a value, and a call with the kind and name *)
(* of a registered record returns the uri the record was registered under,    *)
(* whatever the registry holds by then.                                       *)
C9_CreateUriDeterministic ==
    /\ \A i \in 1..Len(persons) :
           persons[i].uri = create_uri("person", persons[i].name)
    /\ \A i \in 1..Len(organizations) :
           organizations[i].org_type # "University" =>
               organizations[i].uri = create_uri(KindOfOrganization(organizations[i].org_type),
                                                 organizations[i].name)
    /\ \A i \in 1..Len(chairs) : chairs[i].uri = create_uri("chair", chairs[i].name)
    /\ \A i \in 1..Len(hiwi_positions) :
           hiwi_positions[i].uri = create_uri("hiwi-position", hiwi_positions[i].title)
    /\ \A kind \in EntityKinds : create_uri(kind, "") = INSTANCE_NS \o kind \o "/"

\* persons registered at different states of the registry, and a chair and a
\* Hiwi position registered after them
C9_Witness ==
    /\ Len(persons) >= 2
    /\ Len(organizations) >= 5
    /\ Len(chairs) >= 1
    /\ Len(hiwi_positions) >= 1

-----------------------------------------------------------------------------
(* Claims about the relationships load_from_json emits                     *)

\* the Institutes of the graph g whose stored abbreviation is the soft
\* reference, compared without regard to case
InstitutesAbbreviated(g, reference) ==
    {s \in Triples(g) : /\ s[2] = "rdf:type" /\ s[3] = "leuph:Institute"
                        /\ \E a \in Triples(g) :
                               /\ a[1] = s[1] /\ a[2] = "leuph:abbreviation"
                               /\ Upper(a[3]) = Upper(reference)}

\* the objects of the triples of g with subject s and predicate p
ObjectsOf(g, s, p) == {t[3] : t \in {a \in Triples(g) : a[1] = s /\ a[2] = p}}

(* C15: a Person record whose institute soft reference equals, without     *)
(* regard to case, the stored abbreviation of an Institute of the graph is *)
(* linked memberOf to that Institute, with hasMember back, and to no other *)
(* organization and not to the University fallback, whatever other         *)
(* Institutes are registered and in whatever order.                        *)
C15_MemberOfAbbreviatedInstitute ==
    \A i \in 1..Len(doc.persons) :
        LET person == doc.persons[i] IN
        person.institute # "" =>
            \A s \in InstitutesAbbreviated(graph, person.institute) :
                /\ ObjectsOf(graph, person.uri, "leuph:memberOf") = {s[1]}
                /\ InGraph(graph, <<s[1], "leuph:hasMember", person.uri>>)
                /\ ObjectsOf(graph, person.uri, "leuph:affiliatedWith") = {}

CentersAbbreviated(g, reference) ==
    {s \in Triples(g) : /\ s[2] = "rdf:type" /\ s[3] = "leuph:ResearchCenter"
                        /\ \E a \in Triples(g) :
                               /\ a[1] = s[1] /\ a[2] = "leuph:abbreviation"
                               /\ Upper(a[3]) = Upper(reference)}

(* C17: a Person record that references by its abbreviation a              *)
(* ResearchCenter registered with that stored abbreviation is linked       *)
(* memberOf to that ResearchCenter, with hasMember back, also when the     *)
(* abbreviation does not occur in the uri of the center.                   *)
C17_CenterByAbbreviation ==
    \A i \in 1..Len(doc.persons) :
        LET person == doc.persons[i] IN
        person.institute # "" =>
            \A s \in CentersAbbreviated(graph, person.institute) :
                /\ InGraph(graph, <<person.uri, "leuph:memberOf", s[1]>>)
                /\ InGraph(graph, <<s[1], "leuph:hasMember", person.uri>>)

\* the relationships that have a named inverse: forward, inverse
InversePairs ==
    {<<"leuph:partOf", "leuph:hasPart">>, <<"leuph:memberOf", "leuph:hasMember">>,
     <<"leuph:worksAt", "leuph:hasEmployee">>, <<"leuph:offeredBy", "leuph:offers">>,
     <<"leuph:conductedBy", "leuph:conducts">>, <<"leuph:headedBy", "leuph:heads">>,
     <<"leuph:taughtBy", "leuph:teaches">>,
     <<"leuph:affiliatedWith", "leuph:hasAffiliate">>}

(* C18: every relationship triple (s, p, o) of the graph has its inverse   *)
(* (o, p', s) in the graph: p' is the named inverse of p where the builder *)
(* names one; for postedBy (HiwiPosition department) and worksOn           *)
(* (ResearchProject principal_investigator) any triple from o back to s    *)
(* counts.                                                                 *)
C18_Bidirectional ==
    \A t \in Triples(graph) :
        /\ \A pair \in InversePairs :
               /\ t[2] = pair[1] => InGraph(graph, <<t[3], pair[2], t[1]>>)
               /\ t[2] = pair[2] => InGraph(graph, <<t[3], pair[1], t[1]>>)
        /\ t[2] \in {"leuph:postedBy", "leuph:worksOn"} =>
               \E u \in Triples(graph) : u[1] = t[3] /\ u[3] = t[1]

\* the reference resolves to no organization of the graph g: it is not the
\* uri of a typed node and no node of the kind it hints at matches it
Unresolvable(g, ref) ==
    /\ ~IsTyped(g, ref)
    /\ \A s \in HintedCandidates(g, ref) :
           /\ ~UriContains(s, TrailingSegment(ref))
           /\ ~AbbreviationEquals(g, s, TrailingSegment(ref))

\* the pair of triples p, q between the entity and the University root
FallbackPair(g, uri, p, q) ==
    /\ InGraph(g, <<uri, p, "http://leuphana.de/resource/university/leuphana">>)
    /\ InGraph(g, <<"http://leuphana.de/resource/university/leuphana", q, uri>>)

-----------------------------------------------------------------------------
(* Claims about the order of load_from_json                                *)

\* the order of the contract
ProcessingOrder ==
    <<"organizations", "core_units", "chairs", "hiwi_positions", "persons",
      "programs", "minors", "research_projects", "courses">>

\* the place of the step p in the order; 0 before the first, 10 at the end
PlaceOf(p) ==
    IF p = "idle" THEN 0
    ELSE IF p = "done" THEN Len(ProcessingOrder) + 1
    ELSE CHOOSE k \in 1..Len(ProcessingOrder) : ProcessingOrder[k] = p

\* the collections whose records are added with a lookup against the graph
LookupCollections == {"persons", "programs", "research_projects"}

(* C20: load_from_json moves through the collections in the order          *)
(* Organizations, core academic units, Chairs, HiwiPositions, Persons,     *)
(* Programs, Minors, ResearchProjects, Courses and adds a record only in   *)
(* the step of its collection; when a Person, Program or ResearchProject   *)
(* is added the core units are in the graph, and from then on no           *)
(* Organization and no Chair is added.                                     *)
C20_FixedOrder ==
    [][/\ PlaceOf(phase) <= PlaceOf(phase')
       /\ \A c \in DOMAIN doc : doc'[c] # doc[c] => phase' = c
       /\ \A c \in LookupCollections :
              doc'[c] # doc[c] =>
                  \A k \in 1..Len(core_units) :
                      InGraph(graph, <<core_units[k].uri, "rdf:type", "leuph:School">>)
       /\ (\E c \in LookupCollections : doc[c] # <<>>) =>
              /\ doc'.organizations = doc.organizations
              /\ doc'.chairs = doc.chairs]_vars

\* a document with an organization, a chair and a person has been loaded
C20_Witness ==
    /\ phase = "done"
    /\ doc.organizations # <<>>
    /\ doc.chairs # <<>>
    /\ doc.persons # <<>>

-----------------------------------------------------------------------------
(* Claims about the graph of a whole run                                   *)

\* the predicates whose object is a node of the graph
ChainPredicates ==
    RelationshipPredicates \cup
    {"leuph:affiliatedWith", "leuph:hasAffiliate", "leuph:belongsTo", "leuph:worksOn"}

\* the classes of the materialized entities other than the root
MaterializedClasses ==
    EntityClasses \cup
    {"leuph:HiwiPosition", "leuph:School", "leuph:Institute", "leuph:ResearchCenter",
     "leuph:ResearchGroup", "leuph:College", "leuph:GraduateSchool",
     "leuph:ProfessionalSchool", "leuph:AcademicStaff"}

RECURSIVE ConnectedSet(_, _)
\* the nodes joined to the set S by a chain of relationship edges, each edge
\* taken in either direction
ConnectedSet(g, S) ==
    LET S2 == S \cup {t[1] : t \in {u \in Triples(g) : u[2] \in ChainPredicates /\ u[3] \in S}}
                 \cup {t[3] : t \in {u \in Triples(g) : u[2] \in ChainPredicates /\ u[1] \in S}}
    IN  IF S2 = S THEN S ELSE ConnectedSet(g, S2)

(* C21: after the graph is built from the file a run saved, exactly one    *)
(* node is typed University, it is the root, and every other typed entity, *)
(* every HiwiPosition and every Organization included, is joined to it by  *)
(* a chain of relationship edges.                                          *)
C21_NoOrphanNode ==
    phase = "done" =>
        /\ NodesOf(graph, {"leuph:University"}) = {UNIVERSITY_URI}
        /\ NodesOf(graph, MaterializedClasses) \subseteq ConnectedSet(graph, {UNIVERSITY_URI})


\* a HiwiPosition whose posting names no institute is in the graph
C21_HiwiWithoutDepartment ==
    /\ phase = "done"
    /\ \E i \in 1..Len(doc.hiwi_positions) :
           /\ doc.hiwi_positions[i].department = ""
           /\ doc.hiwi_positions[i].uri \notin ConnectedSet(graph, {UNIVERSITY_URI})


-----------------------------------------------------------------------------
(* Claims about the requests of a run                                      *)

(* C26: in every execution of run, between any two consecutive requests    *)
(* issued by get_soup there is at least one time.sleep call.               *)
C26_Politeness ==
    \A i \in 1..(Len(io) - 1) : io[i].op = "get" => io[i + 1].op = "sleep"


\* the requests of the step that got no page
FailedRequests(before, after) ==
    {after[k].url : k \in {j \in (Len(before) + 1)..Len(after) :
                              after[j].op = "get" /\ ~after[j].ok}}

\* the records the step added to the collection
AddedRecords(before, after) ==
    {after[i] : i \in 1..Len(after)} \ {before[i] : i \in 1..Len(before)}

(* C24: when the request for a team member's profile page or for a study   *)
(* program's detail page gets no page, the step still registers the Person *)
(* or StudyProgram with its uri, its name and its soft references          *)
(* (institute and school, offered_by), with every enrichment attribute     *)
(* absent, and the run moves on to its next task.                          *)
C24_FailedEnrichmentNotFatal ==
    [][/\ TeamUrl \in FailedRequests(io, io') =>
              /\ pc' = pc + 1
              /\ \E person \in AddedRecords(persons, persons') :
                     person.webpage = TeamUrl
              /\ \A person \in AddedRecords(persons, persons') :
                     /\ person.uri = create_uri("person", person.name)
                     /\ person.name # ""
                     /\ person.institute = Task.name
                     /\ person.school = Task.school_name
                     /\ person.webpage = TeamUrl
                     /\ person.email = "" /\ person.phone = "" /\ person.office = ""
                     /\ person.research_areas = <<>>
       /\ ProgramUrl \in FailedRequests(io, io') =>
              /\ pc' = pc + 1
              /\ \E program \in AddedRecords(programs, programs') :
                     /\ program.uri = create_uri("program", program.name)
                     /\ program.name # ""
                     /\ program.offered_by = create_uri("school", "College")
                     /\ program.webpage = ProgramUrl
                     /\ program.description = "" /\ program.duration = ""
                     /\ program.language = ""]_vars

\* a finished run in which the profile page and the program page both failed
\* and the person and the program are in the saved file
C24_Witness ==
    /\ phase = "done"
    /\ \E j, k \in 1..Len(io) :
           /\ io[j].op = "get" /\ io[j].url = TeamUrl /\ ~io[j].ok
           /\ io[k].op = "get" /\ io[k].url = ProgramUrl /\ ~io[k].ok
    /\ \E i \in 1..Len(doc.persons) :
           doc.persons[i].webpage = TeamUrl /\ doc.persons[i].institute # ""
    /\ \E i \in 1..Len(doc.programs) :
           doc.programs[i].webpage = ProgramUrl /\ doc.programs[i].description = ""


-----------------------------------------------------------------------------
(* Claims about the registry of a run                                      *)

\* the uris registered in the collection
UrisOf(d) == {d[i].uri : i \in 1..Len(d)}

\* the uris of every collection of the state R
RegisteredUris(R) ==
    [c \in {"persons", "organizations", "chairs", "hiwi_positions", "programs",
            "minors", "research_projects", "courses"} |-> UrisOf(R[c])]

(* C22: a run is deterministic in the uris it registers: when scrape_courses *)
(* has run over a catalogue, the same call over the same pages registers the *)
(* same set of uris in every collection whatever the order in which the      *)
(* sets of program, area and module ids are iterated before they are cut to  *)
(* their first 30, 10 and 5 members.                                         *)
C22_RunDeterministic ==
    [][At("scrape_courses") =>
           \A web \in CourseWebs : \A order, other \in IterationOrders :
               With(scrape_courses(Registry, web, order), LAMBDA ran :
                   (courses' = ran.courses /\ persons' = ran.persons /\ io' = ran.io) =>
                       RegisteredUris(scrape_courses(Registry, web, other))
                           = RegisteredUris(ran))]_vars


\* no two entries of the collection are stored under one uri
KeyedByUri(d) == \A i, j \in 1..Len(d) : d[i].uri = d[j].uri => i = j

(* C23: no step of a run deletes an entity: the set of uris of every        *)
(* collection of the registry only grows, and every collection holds each   *)
(* record under its own uri, one record per uri.                            *)
C23_EntitiesNeverDeleted ==
    [][/\ \A c \in DOMAIN RegisteredUris(Registry) :
              RegisteredUris(Registry)[c] \subseteq RegisteredUris(Registry')[c]
       /\ \A c \in DOMAIN RegisteredUris(Registry) : KeyedByUri(Registry'[c])]_vars

\* a finished run that registered organizations, persons, a chair and courses
C23_Witness ==
    /\ pc > Len(RunTasks)
    /\ Len(organizations) >= 5
    /\ persons # <<>>
    /\ chairs # <<>>
    /\ courses # <<>>


-----------------------------------------------------------------------------
(* Claims about get_soup                                                   *)

\* a disallowed path is a substring of the url's path, whatever the case
OnDisallowedPath(url) ==
    \E disallowed \in DISALLOWED_PATHS :
        Contains(Lower(UrlPath(url)), Lower(disallowed))

(* C25: get_soup returns None for a url on a disallowed path (a            *)
(* case-insensitive substring of the url's path) without issuing a         *)
(* request, and for an allowed url whose request times out, fails or is    *)
(* answered with an error status it returns None without raising; an       *)
(* allowed url answered with status 200 gives the page.                    *)
C25_GetSoupFiltersAndCatches ==
    call.fn = "get_soup" =>
        /\ OnDisallowedPath(call.url) =>
               ret.soup = NoPage /\ ret.io = <<>> /\ ret.raised = ""
        /\ ~OnDisallowedPath(call.url) =>
               /\ Len(ret.io) = 1 /\ ret.io[1].url = call.url
               /\ ret.raised = ""
               /\ IF call.response.kind = "status" /\ call.response.status = 200
                  THEN ret.soup = call.response.page
                  ELSE ret.soup = NoPage

\* get_soup has refused a url whose path holds a disallowed text in another
\* case, although the request would have been answered
C25_Witness ==
    /\ call.fn = "get_soup"
    /\ call.url = BASE_URL \o "/Intranet/start.html"
    /\ call.response.kind = "status" /\ call.response.status = 200
    /\ ret.soup = NoPage


-----------------------------------------------------------------------------
(* Claims about _create_core_academic_units                                *)

\* the triples of the graph with the subject, in the order they were added
TriplesOf(g, subject) == SelectSeq(g, LAMBDA t : t[1] = subject)

(* C27: after the organizations of a document are added and               *)
(* _create_core_academic_units has run, the College, the Graduate School  *)
(* and the Professional School are each typed School and linked partOf    *)
(* the University with the inverse hasPart, whether the document held     *)
(* them or not; running _create_core_academic_units again adds no triple, *)
(* and a unit the document holds as a School keeps exactly the triples    *)
(* add_organization gave it.                                              *)
C27_CoreUnits ==
    call.fn = "_create_core_academic_units" =>
        /\ \A k \in 1..Len(core_units) :
               /\ InGraph(ret, <<core_units[k].uri, "rdf:type", "leuph:School">>)
               /\ InGraph(ret, <<core_units[k].uri, "leuph:partOf", UNIVERSITY_URI>>)
               /\ InGraph(ret, <<UNIVERSITY_URI, "leuph:hasPart", core_units[k].uri>>)
        /\ _create_core_academic_units(ret) = ret
        /\ \A i \in 1..Len(call.organizations) :
               call.organizations[i].org_type = "School" =>
                   TriplesOf(ret, call.organizations[i].uri)
                       = TriplesOf(AddRecords(<<>>, "organizations", call.organizations),
                                   call.organizations[i].uri)

\* the document held the College as a School without parent
C27_CollegeWithoutParent ==
    /\ call.fn = "_create_core_academic_units"
    /\ \E i \in 1..Len(call.organizations) : call.organizations[i] = CollegeWithoutParent
    /\ ~InGraph(ret, <<COLLEGE_URI, "leuph:partOf", UNIVERSITY_URI>>)


-----------------------------------------------------------------------------
(* Claims about the two canonicalizers                                     *)

(* C28: for every entity kind and display name, name_to_uri returns the    *)
(* uri create_uri returns, so that a reference the builder derives from a  *)
(* display name is the uri the scraper registered the entity under.        *)
C28_CanonicalizersAgree ==
    call.fn = "create_uri" => ret = name_to_uri(call.entity_type, call.name)


\* the urls whose request of the run was answered with a document
FetchedUrls(log) ==
    {log[k].url : k \in {j \in 1..Len(log) : log[j].op = "get" /\ log[j].ok}}

(* C29: across the steps of a run visited_urls only grows and holds only   *)
(* urls for which a request returned a document, so that a url skipped     *)
(* because it is in visited_urls is a url whose page was fetched earlier.  *)
C29_VisitedMeansFetched ==
    [][/\ visited_urls \subseteq visited_urls'
       /\ visited_urls' \subseteq FetchedUrls(io')]_vars


-----------------------------------------------------------------------------
(* Claims about _scrape_chair_page                                         *)

\* the institute matches the segment of the chair url through its name or
\* through its abbreviation
MatchesSegment(inst, segment) ==
    \/ Contains(Upper(inst.name), Upper(segment))
    \/ inst.abbreviation # "" /\ Contains(Upper(inst.abbreviation), Upper(segment))

====
